---- MODULE Spec2Model ----
(***************************************************************************)
(* Single Site Plan generator (src/app.py): a Streamlit script that reads  *)
(* a form, resolves the map centre, and on "Generate DXF + PDF" computes   *)
(* the sheet layout, emits the drawing primitives into an ezdxf            *)
(* modelspace, composes the key-plan and ADLR insets from map tiles,       *)
(* serialises the DXF, renders the PDF, offers the downloads and cleans    *)
(* the temporary directory.                                                *)
(*                                                                         *)
(* Numbers: the script computes with Python floats.  Where the rounding    *)
(* of a float decides what the script does or shows, the model computes    *)
(* in binary floats as well: the drawing scale of lines 157-185, the       *)
(* numbers float() reads from the centre text, the tile arithmetic and     *)
(* the formatted numbers.  The coordinates of the drawing are computed     *)
(* over exact rationals [n |-> numerator, d |-> denominator] in lowest     *)
(* terms: each is the real number the script's float approximates.         *)
(* Lengths on the sheet are millimetres, DXF coordinates are metres, as    *)
(* in the script.                                                          *)
(***************************************************************************)
EXTENDS Integers, Sequences, FiniteSets, TLC

VARIABLES
    form,           \* the widget values of the form (lines 91-121)
    data,           \* the answer of the geocoding request (line 136), if one was made
    picked_latlon,  \* the resolved map centre (lines 123-145)
    adlr_zoom,      \* line 148
    adlr_buffer_m,  \* line 149
    pc,             \* the script's position
    run,            \* number of the current script run (0 = first)
    lay,            \* layout values of lines 178-191
    side_idx,       \* position of the road loop (line 229)
    msp,            \* the modelspace: the primitives added, in order
    warnings,       \* st.warning calls of safe_add_text, in order
    comp,           \* the frame of the running make_keyplan_image call
    img,            \* the image the last make_keyplan_image call returned
    calls,          \* arguments of the make_keyplan_image calls of this run
    requests,       \* tile requests issued in this run, in order
    answers,        \* whether each request of the running call was answered with a tile
    tmp_files,      \* line 284
    tmpdir,         \* names of the files in tempfile.gettempdir()
    outputs,        \* dxf_buf / pdf_buf written (lines 451-465)
    downloads,      \* download buttons offered (lines 469-470)
    bad,            \* ids of the primitives the document library rejects
    net,            \* how the tile server answers: "up", "down" or "flaky"
    locked,         \* names of the files os.remove fails on
    prev            \* the form and modelspace of the previous completed run

vars == <<form, data, picked_latlon, adlr_zoom, adlr_buffer_m, pc, run, lay, side_idx,
          msp, warnings, comp, img, calls, requests, answers, tmp_files, tmpdir,
          outputs, downloads, bad, net, locked, prev>>

-----------------------------------------------------------------------------
(* Exact arithmetic for the script's float expressions.                    *)

Abs(x) == IF x < 0 THEN -x ELSE x

RECURSIVE GCD(_, _)
GCD(a, b) == IF b = 0 THEN a ELSE GCD(b, a % b)

LCM(a, b) == (a \div GCD(a, b)) * b

Q(n, d) ==
    LET g == GCD(Abs(n), d)
    IN  [n |-> n \div g, d |-> d \div g]

QI(i) == [n |-> i, d |-> 1]

QAdd(a, b) ==
    LET l == LCM(a.d, b.d)
    IN  Q(a.n * (l \div a.d) + b.n * (l \div b.d), l)

QNeg(a) == [n |-> -a.n, d |-> a.d]

QSub(a, b) == QAdd(a, QNeg(b))

QMul(a, b) ==
    LET g1 == GCD(Abs(a.n), b.d)
        g2 == GCD(Abs(b.n), a.d)
    IN  [n |-> (a.n \div g1) * (b.n \div g2), d |-> (a.d \div g2) * (b.d \div g1)]

\* b is positive wherever the script divides
QDiv(a, b) == QMul(a, [n |-> b.d, d |-> b.n])

QLe(a, b) ==
    LET l == LCM(a.d, b.d)
    IN  a.n * (l \div a.d) <= b.n * (l \div b.d)

QLt(a, b) == QLe(a, b) /\ a # b

QMin(a, b) == IF QLe(a, b) THEN a ELSE b

\* x / 1000.0 : sheet millimetres to DXF metres
ToM(x) == QDiv(x, QI(1000))

\* int(x) for x >= 0
QInt(a) == a.n \div a.d

Pow2(k) == 2 ^ k

Pow10(k) == 10 ^ k

\* A loop of the model runs at most k * Radix^lvl times: k rounds of one step
\* (lvl = 0) or of Radix rounds one level down.
Radix == 11

-----------------------------------------------------------------------------
(* Binary floats, where the rounding of a float shows in the output: the   *)
(* number formatting of lines 267, 338-339, 421 and 431.  A positive float *)
(* is [e, m]: m its 53 significand bits, most significant first, m[1] = 1, *)
(* and e the exponent of m[1], so that its value is the sum of             *)
(* m[i] * 2^(e + 1 - i).  Zero is [e |-> 0, m |-> << >>].                  *)

MantBits == 53

FloatZero == [e |-> 0, m |-> << >>]

\* floor(log2(n / d)) for n, d > 0
RECURSIVE Log2Floor(_, _)
Log2Floor(n, d) ==
    IF 2 * d <= n THEN Log2Floor(n, 2 * d) + 1
    ELSE IF n < d THEN Log2Floor(2 * n, d) - 1
    ELSE 0

\* long division: one more bit of st.r / d (st.r < d), appended to st.m, and the
\* remainder
DivBit(st, d) ==
    IF 2 * st.r >= d THEN [m |-> Append(st.m, 1), r |-> 2 * st.r - d]
    ELSE [m |-> Append(st.m, 0), r |-> 2 * st.r]

\* DivBit until there are n bits
RECURSIVE DivBitsRun(_, _, _, _, _)
DivBitsRun(st, d, n, lvl, k) ==
    IF k = 0 \/ Len(st.m) >= n THEN st
    ELSE DivBitsRun(IF lvl = 0 THEN DivBit(st, d) ELSE DivBitsRun(st, d, n, lvl - 1, Radix),
                    d, n, lvl, k - 1)

\* k more bits of r / d, appended to acc
DivBits(r, d, k, acc) == DivBitsRun([m |-> acc, r |-> r], d, Len(acc) + k, 1, Radix)

\* the first MantBits bits of the binary expansion of n / d > 0, its exponent,
\* and the remainder (0 when n / d is those bits exactly)
BinExpand(n, d) ==
    LET e  == Log2Floor(n, d)
        nn == IF e < 0 THEN n * Pow2(-e) ELSE n
        dd == IF e > 0 THEN d * Pow2(e) ELSE d
        b  == DivBits(nn - dd, dd, MantBits - 1, <<1>>)
    IN  [e |-> e, m |-> b.m, r |-> b.r, d |-> dd]

\* a significand plus one unit in its last place; [carry, m]
RECURSIVE IncBits(_, _)
IncBits(m, i) ==
    IF i = 0 THEN [carry |-> TRUE, m |-> m]
    ELSE IF m[i] = 0 THEN [carry |-> FALSE, m |-> [m EXCEPT ![i] = 1]]
    ELSE IncBits([m EXCEPT ![i] = 0], i - 1)

\* round to nearest, ties to even: bits m at exponent e, then a guard bit and
\* whether anything non-zero follows it
RoundBits(e, m, guard, sticky) ==
    IF guard = 1 /\ (sticky \/ m[MantBits] = 1)
    THEN LET u == IncBits(SubSeq(m, 1, MantBits), MantBits)
         IN  IF u.carry
             THEN [e |-> e + 1, m |-> SubSeq([i \in 1..MantBits |-> IF i = 1 THEN 1 ELSE 0], 1, MantBits)]
             ELSE [e |-> e, m |-> SubSeq(u.m, 1, MantBits)]
    ELSE [e |-> e, m |-> SubSeq(m, 1, MantBits)]

\* float(x): the float nearest to the rational x >= 0
RoundExpansion(b) ==
    RoundBits(b.e, b.m, IF 2 * b.r >= b.d THEN 1 ELSE 0, 2 * b.r # b.d /\ b.r # 0)

ToFloat(x) == IF x.n = 0 THEN FloatZero ELSE RoundExpansion(BinExpand(x.n, x.d))

\* the sign of f - x for a float f and a rational x, both >= 0
FloatCmp(f, x) ==
    IF x.n = 0 THEN (IF f = FloatZero THEN 0 ELSE 1)
    ELSE IF f = FloatZero THEN -1
    ELSE LET b    == BinExpand(x.n, x.d)
             diff == {i \in 1..MantBits : f.m[i] # b.m[i]}
             i0   == CHOOSE i \in diff : \A j \in diff : i <= j
         IN  IF f.e # b.e THEN (IF f.e > b.e THEN 1 ELSE -1)
             ELSE IF diff # {} THEN (IF f.m[i0] = 1 THEN 1 ELSE -1)
             ELSE IF b.r = 0 THEN 0 ELSE -1

\* A significand as five digits of base 2^11, least significant first: LimbVal is
\* digit j, summed from its bit t on.
LimbBits == 11
NumLimbs == 5

RECURSIVE LimbVal(_, _, _)
LimbVal(m, j, t) ==
    IF t = LimbBits THEN 0
    ELSE LET i == LimbBits * j + t
         IN  (IF i < Len(m) THEN m[Len(m) - i] * Pow2(t) ELSE 0) + LimbVal(m, j, t + 1)

\* the digits of the product of two significands: column sums, then the carries
RECURSIVE CarryLimbs(_, _, _, _, _)
CarryLimbs(a, b, k, c, acc) ==
    LET col == IF k < 2 * NumLimbs - 1
               THEN LET lo == IF k < NumLimbs THEN 0 ELSE k - NumLimbs + 1
                        hi == IF k < NumLimbs THEN k ELSE NumLimbs - 1
                        t  == [i \in lo..hi |-> a[i] * b[k - i]]
                    IN  t[lo] + (IF lo + 1 <= hi THEN t[lo + 1] ELSE 0)
                        + (IF lo + 2 <= hi THEN t[lo + 2] ELSE 0)
                        + (IF lo + 3 <= hi THEN t[lo + 3] ELSE 0)
                        + (IF lo + 4 <= hi THEN t[lo + 4] ELSE 0)
               ELSE 0
    IN  IF k = 2 * NumLimbs THEN acc
        ELSE CarryLimbs(a, b, k + 1, (col + c) \div Pow2(LimbBits),
                        Append(acc, (col + c) % Pow2(LimbBits)))

\* the binary digits of the product of two significands, least significant first
MulBits(a, b) ==
    LET la == [j \in 0..(NumLimbs - 1) |-> LimbVal(a, j, 0)]
        lb == [j \in 0..(NumLimbs - 1) |-> LimbVal(b, j, 0)]
        p  == CarryLimbs(la, lb, 0, 0, << >>)
    IN  [i \in 1..(Len(a) + Len(b)) |->
            (p[((i - 1) \div LimbBits) + 1] \div Pow2((i - 1) % LimbBits)) % 2]

\* f * g, rounded to nearest (line 338: site_width_m * site_length_m)
FloatMul(f, g) ==
    IF f = FloatZero \/ g = FloatZero THEN FloatZero
    ELSE LET p    == MulBits(f.m, g.m)
             n    == Len(p)
             top  == IF p[n] = 1 THEN n ELSE n - 1
             m    == [i \in 1..MantBits |-> p[top + 1 - i]]
             rest == top - MantBits
         IN  RoundBits(f.e + g.e + (IF p[n] = 1 THEN 1 ELSE 0), m, p[rest],
                       \E j \in 1..(rest - 1) : p[j] = 1)

\* the bits i..n of a significand (zeros after its last) as a number, modulo q
ModStep(st, m, q) ==
    [v |-> (2 * st.v + (IF st.j <= Len(m) THEN m[st.j] ELSE 0)) % q, j |-> st.j + 1]

RECURSIVE ModRun(_, _, _, _, _, _)
ModRun(st, m, n, q, lvl, k) ==
    IF k = 0 \/ st.j > n THEN st
    ELSE ModRun(IF lvl = 0 THEN ModStep(st, m, q) ELSE ModRun(st, m, n, q, lvl - 1, Radix),
                m, n, q, lvl, k - 1)

BitsMod(m, i, n, q) == ModRun([v |-> 0, j |-> i], m, n, q, 1, Radix).v

\* a significand as the number hi * 2^HalfBits + lo
HalfBits == 27

Halves(m) ==
    [hi |-> BitsMod(m, 1, MantBits - HalfBits, Pow2(HalfBits)),
     lo |-> BitsMod(m, MantBits - HalfBits + 1, MantBits, Pow2(HalfBits))]

\* Long division by the bits d of a float.  A step doubles the remainder, takes d
\* from it if d is not above it, and notes the bit of the quotient once the first
\* 1 has come; k counts the steps.
DivStep(st, d) ==
    LET w   == Pow2(HalfBits)
        lo  == (2 * st.lo) % w
        hi  == 2 * st.hi + (2 * st.lo) \div w
        bit == IF hi > d.hi \/ (hi = d.hi /\ lo >= d.lo) THEN 1 ELSE 0
        low == lo - bit * d.lo
    IN  [hi |-> hi - bit * d.hi - (IF low < 0 THEN 1 ELSE 0),
         lo |-> IF low < 0 THEN low + w ELSE low,
         q  |-> IF st.q # << >> \/ bit = 1 THEN Append(st.q, bit) ELSE st.q,
         k  |-> st.k + 1]

\* DivStep until the quotient has MantBits bits and the one after them, at most
\* k * Radix^lvl times
RECURSIVE DivRun(_, _, _, _)
DivRun(st, d, lvl, k) ==
    IF k = 0 \/ Len(st.q) > MantBits THEN st
    ELSE DivRun(IF lvl = 0 THEN DivStep(st, d) ELSE DivRun(st, d, lvl - 1, Radix), d, lvl, k - 1)

\* f < g, f <= g and min(f, g) for floats >= 0
FloatLess(f, g) ==
    IF g = FloatZero THEN FALSE
    ELSE IF f = FloatZero THEN TRUE
    ELSE IF f.e # g.e THEN f.e < g.e
    ELSE \E i \in 1..MantBits : f.m[i] < g.m[i] /\ \A j \in 1..(i - 1) : f.m[j] = g.m[j]

FloatLe(f, g) == ~FloatLess(g, f)

FloatMin(f, g) == IF FloatLess(g, f) THEN g ELSE f

\* f / g for floats > 0, rounded to nearest: the significand of f is divided by
\* that of g, which gives the first bit of the quotient at once when it is not
\* below g's, and one step later, a binary place lower, when it is
DivStart(a, b) ==
    LET ge  == a.hi > b.hi \/ (a.hi = b.hi /\ a.lo >= b.lo)
        low == a.lo - b.lo
    IN  IF ge
        THEN [hi |-> a.hi - b.hi - (IF low < 0 THEN 1 ELSE 0),
              lo |-> IF low < 0 THEN low + Pow2(HalfBits) ELSE low,
              q  |-> <<1>>, k |-> 0]
        ELSE [hi |-> a.hi, lo |-> a.lo, q |-> << >>, k |-> 0]

QuotientAt(st, e) ==
    RoundBits(e, SubSeq(st.q, 1, MantBits), st.q[MantBits + 1], st.hi # 0 \/ st.lo # 0)

DivHalves(a, b, e) ==
    QuotientAt(DivRun(DivStart(a, b), b, 1, Radix),
               IF DivStart(a, b).q = << >> THEN e - 1 ELSE e)

FloatDiv(f, g) ==
    IF f = FloatZero THEN FloatZero ELSE DivHalves(Halves(f.m), Halves(g.m), f.e - g.e)

\* f - g for floats f >= g >= 0, rounded to nearest.  Both significands are
\* written from the leading bit of f down to the last bit of g; Below says that a
\* place has to lend to the one above it; the difference starts at its first 1.
Aligned(m, sh, n) ==
    SubSeq([i \in 1..n |-> IF i > sh /\ i - sh <= Len(m) THEN m[i - sh] ELSE 0], 1, n)

Below(x, y, i) ==
    \E j \in i..Len(x) : x[j] < y[j] /\ \A k \in i..(j - 1) : x[k] = y[k]

DiffBits(x, y) ==
    SubSeq([i \in 1..Len(x) |->
               (2 + x[i] - y[i] - (IF Below(x, y, i + 1) THEN 1 ELSE 0)) % 2], 1, Len(x))

NormalAt(d, e, p) ==
    RoundBits(e - (p - 1),
              SubSeq([i \in 1..MantBits |-> IF p - 1 + i <= Len(d) THEN d[p - 1 + i] ELSE 0],
                     1, MantBits),
              IF p + MantBits <= Len(d) THEN d[p + MantBits] ELSE 0,
              \E j \in (p + MantBits + 1)..Len(d) : d[j] = 1)

Normal(d, e) ==
    IF \A i \in 1..Len(d) : d[i] = 0 THEN FloatZero
    ELSE NormalAt(d, e, CHOOSE i \in 1..Len(d) : d[i] = 1 /\ \A j \in 1..(i - 1) : d[j] = 0)

FloatSub(f, g) ==
    IF g = FloatZero THEN f
    ELSE Normal(DiffBits(Aligned(f.m, 0, MantBits + f.e - g.e),
                         Aligned(g.m, f.e - g.e, MantBits + f.e - g.e)), f.e)

\* f + g for floats >= 0, rounded to nearest.  The significands are written as for
\* f - g; Carries says that a place hands a one to the place above it; the sum has
\* one place more in front.
Carries(x, y, i) ==
    \E j \in i..Len(x) : x[j] + y[j] = 2 /\ \A k \in i..(j - 1) : x[k] + y[k] = 1

SumBits(x, y) ==
    SubSeq([i \in 1..(Len(x) + 1) |->
               IF i = 1 THEN (IF Carries(x, y, 1) THEN 1 ELSE 0)
               ELSE (x[i - 1] + y[i - 1] + (IF Carries(x, y, i) THEN 1 ELSE 0)) % 2],
           1, Len(x) + 1)

\* for f.e >= g.e
SumFrom(f, g) ==
    Normal(SumBits(Aligned(f.m, 0, MantBits + f.e - g.e),
                   Aligned(g.m, f.e - g.e, MantBits + f.e - g.e)), f.e + 1)

FloatAdd(f, g) ==
    IF g = FloatZero THEN f
    ELSE IF f = FloatZero THEN g
    ELSE IF f.e >= g.e THEN SumFrom(f, g) ELSE SumFrom(g, f)

\* f / 2.0
FloatHalf(f) == IF f = FloatZero THEN f ELSE [e |-> f.e - 1, m |-> f.m]

\* the float next above f > 0, and two floats that are equal or next to each other
NextUp(f) == RoundBits(f.e, f.m, 1, TRUE)

Adjacent(f, g) == f = g \/ f = NextUp(g) \/ g = NextUp(f)

\* f"{v:.kf}" for a float v that is the rational x or next to it (side = the sign
\* of v - x), as the integer printed without its decimal point: the exact binary
\* value is rounded, ties to even, so a decimal tie of x goes the way v lies
FmtNear(x, side, k) ==
    LET s  == QMul(x, QI(Pow10(k)))
        fl == s.n \div s.d
        r2 == 2 * (s.n - fl * s.d)
    IN  [fmt |-> k,
         val |-> IF r2 < s.d THEN fl
                 ELSE IF r2 > s.d THEN fl + 1
                 ELSE IF side < 0 THEN fl
                 ELSE IF side > 0 THEN fl + 1
                 ELSE IF fl % 2 = 0 THEN fl ELSE fl + 1]

\* f"{x:.kf}" for a number x >= 0 that came from a number widget (lines 267, 421, 431)
FmtFixed(x, k) == FmtNear(x, FloatCmp(ToFloat(x), x), k)

\* f"{a * b:.kf}" for two such numbers (lines 338-339)
FmtProduct(a, b, k) ==
    FmtNear(QMul(a, b), FloatCmp(FloatMul(ToFloat(a), ToFloat(b)), QMul(a, b)), k)

-----------------------------------------------------------------------------
(* Page layout constants (lines 154-161, 178-181), in millimetres.         *)

PAGE_W_MM == 420
PAGE_H_MM == 297
LEFT == 12
RIGHT == 12
TOP == 12
BOTTOM == 12
INFO_GAP == 15

DRAW_W == QMul(QI(PAGE_W_MM), Q(62, 100))
DRAW_H == QI(PAGE_H_MM - TOP - BOTTOM)
DRAW_X == QI(LEFT)
DRAW_Y == QI(BOTTOM)
INFO_X == QAdd(QAdd(DRAW_X, DRAW_W), QI(INFO_GAP))

inner_pad_mm == 8

\* Lines 157-191 as the script computes them, in floats: the products, differences,
\* sums and quotients are rounded, and the comparisons of line 182 are of the
\* rounded values.  draw_w_mm is the float next to 260.4, and usable_w_mm the float
\* 244.39999999999998, below 244.4 and below the float next to 244.4.
draw_w_mm == FloatMul(ToFloat(QI(PAGE_W_MM)), ToFloat(Q(62, 100)))
draw_h_mm == FloatSub(FloatSub(ToFloat(QI(PAGE_H_MM)), ToFloat(QI(TOP))), ToFloat(QI(BOTTOM)))
usable_w_mm == FloatSub(draw_w_mm, ToFloat(QI(2 * inner_pad_mm)))
usable_h_mm == FloatSub(draw_h_mm, ToFloat(QI(2 * inner_pad_mm)))
mm_per_m_default == FloatDiv(ToFloat(QI(1000)), ToFloat(QI(100)))

\* line 182, for the floats of the two number fields
FitsDefault(site_width_m, site_length_m) ==
    /\ FloatLe(FloatMul(site_width_m, mm_per_m_default), usable_w_mm)
    /\ FloatLe(FloatMul(site_length_m, mm_per_m_default), usable_h_mm)

\* lines 182-185: the canonical scale if the plot fits at it, else the best fit
mm_per_m_use(site_width_m, site_length_m) ==
    IF FitsDefault(site_width_m, site_length_m)
    THEN mm_per_m_default
    ELSE FloatMin(FloatDiv(usable_w_mm, site_width_m), FloatDiv(usable_h_mm, site_length_m))

\* lines 190 / 191: the offset that centres a drawn extent in the usable extent.
\* The leftover usable - drawn is negative where the product of lines 188 / 189 was
\* rounded above the usable extent; half of it is then taken from origin + pad,
\* which is far above it.
CenterIn(origin, usable, drawn) ==
    IF FloatLess(usable, drawn)
    THEN FloatSub(FloatAdd(origin, ToFloat(QI(inner_pad_mm))), FloatHalf(FloatSub(drawn, usable)))
    ELSE FloatAdd(FloatAdd(origin, ToFloat(QI(inner_pad_mm))), FloatHalf(FloatSub(usable, drawn)))

\* The coordinates written into the drawing are computed in real arithmetic: each
\* is the number its float expression stands for, from which the float differs by
\* the roundings of the expression (a few parts in 2^53).  For the scale that is
\* the value of the branch the floats of line 182 take.
usable_w_real == QSub(DRAW_W, QI(2 * inner_pad_mm))
usable_h_real == QSub(DRAW_H, QI(2 * inner_pad_mm))

mm_per_m_real(site_width_m, site_length_m) ==
    IF FitsDefault(ToFloat(site_width_m), ToFloat(site_length_m))
    THEN Q(1000, 100)
    ELSE QMin(QDiv(usable_w_real, site_width_m), QDiv(usable_h_real, site_length_m))

CenterReal(origin, usable, drawn) ==
    QAdd(QAdd(origin, QI(inner_pad_mm)), QDiv(QSub(usable, drawn), QI(2)))

\* lines 188-191 for the scale s and the drawn extents w and h, as floats and (sr,
\* wr, hr) as real numbers
LayoutAt(s, w, h, sr, wr, hr) ==
    [mm_per_m_use   |-> s,
     site_w_mm_draw |-> w,
     site_h_mm_draw |-> h,
     site_x_mm      |-> CenterIn(ToFloat(DRAW_X), usable_w_mm, w),
     site_y_mm      |-> CenterIn(ToFloat(DRAW_Y), usable_h_mm, h),
     mm_per_m_real  |-> sr,
     site_w_real    |-> wr,
     site_h_real    |-> hr,
     site_x_real    |-> CenterReal(DRAW_X, usable_w_real, wr),
     site_y_real    |-> CenterReal(DRAW_Y, usable_h_real, hr)]

LayoutWith(wf, lf, s, site_width_m, site_length_m, sr) ==
    LayoutAt(s, FloatMul(wf, s), FloatMul(lf, s),
             sr, QMul(site_width_m, sr), QMul(site_length_m, sr))

\* lines 178-191
ComputeLayout(site_width_m, site_length_m) ==
    LayoutWith(ToFloat(site_width_m), ToFloat(site_length_m),
               mm_per_m_use(ToFloat(site_width_m), ToFloat(site_length_m)),
               site_width_m, site_length_m, mm_per_m_real(site_width_m, site_length_m))

NoLayout == [mm_per_m_use |-> FloatZero,
             site_w_mm_draw |-> FloatZero, site_h_mm_draw |-> FloatZero,
             site_x_mm |-> FloatZero, site_y_mm |-> FloatZero,
             mm_per_m_real |-> QI(0), site_w_real |-> QI(0), site_h_real |-> QI(0),
             site_x_real |-> QI(0), site_y_real |-> QI(0)]

-----------------------------------------------------------------------------
(* Drawing primitives.  A primitive is what one msp.add_* call adds:       *)
(*   id     <<call site, road side, loop index>> of the call that adds it  *)
(*   kind   "lwpolyline" | "line" | "text" | "mtext" | "image"             *)
(*   pts    the coordinates it is written with, in drawing units           *)
(*   text   its content: literal pieces and up to two formatted numbers    *)

NoNum == [fmt |-> 0, val |-> 0]

Txt(s) == [s |-> s, a |-> NoNum, b |-> NoNum]

NoTxt == Txt(<< >>)

Prim(id, kind, layer, pts, text, height, opt) ==
    [id |-> id, kind |-> kind, layer |-> layer, pts |-> pts, text |-> text,
     height |-> height, opt |-> opt]

\* msp.add_lwpolyline(points, dxfattribs={"layer": layer, ...})
Poly(id, layer, pts, opt) == Prim(id, "lwpolyline", layer, pts, NoTxt, QI(0), opt)

\* msp.add_line(a, b, dxfattribs={"layer": "BORDER"})
Line(id, a, b) == Prim(id, "line", "BORDER", <<a, b>>, NoTxt, QI(0), "")

\* the msp.add_text call of safe_add_text (lines 26-34); height in mm / 1000
Text(id, text, height_mm, pos, align) ==
    Prim(id, "text", "TEXT", <<pos>>, text, Q(height_mm, 1000), align)

\* a closed five-point rectangle given in sheet millimetres, converted to metres
\* (the pattern of lines 200-206, 210-216, 220-225, 277-281, 307-311, 407-411, 443-447)
RectM(x, y, w, h) ==
    << <<ToM(x), ToM(y)>>,
       <<ToM(QAdd(x, w)), ToM(y)>>,
       <<ToM(QAdd(x, w)), ToM(QAdd(y, h))>>,
       <<ToM(x), ToM(QAdd(y, h))>>,
       <<ToM(x), ToM(y)>> >>

\* an emission step: the primitive, and whether it goes through safe_add_text
Cmd(prim, safe) == [prim |-> prim, safe |-> safe]

\* Runs a sequence of emission steps against the document library.  A rejected
\* primitive raises; safe_add_text (lines 23-36) catches it, warns and goes on;
\* a direct msp.add_* call lets it propagate, and the steps after it do not run.
RECURSIVE EmitFrom(_, _, _, _)
EmitFrom(cmds, i, rejected, acc) ==
    IF i > Len(cmds) THEN acc
    ELSE LET c == cmds[i]
         IN  IF c.prim.id \in rejected
             THEN IF c.safe
                  THEN EmitFrom(cmds, i + 1, rejected,
                                [acc EXCEPT !.warn = Append(@, c.prim.id)])
                  ELSE [acc EXCEPT !.raised = TRUE]
             ELSE EmitFrom(cmds, i + 1, rejected,
                           [acc EXCEPT !.out = Append(@, c.prim)])

Emit(cmds, rejected) ==
    EmitFrom(cmds, 1, rejected, [out |-> << >>, warn |-> << >>, raised |-> FALSE])

-----------------------------------------------------------------------------
(* The emission steps of the script, section by section.                   *)

\* lines 199-217: page border and drawing rectangle
BorderCmds ==
    << Cmd(Poly(<<"border", "", 0>>, "BORDER",
                RectM(QI(LEFT), QI(BOTTOM), QI(PAGE_W_MM - LEFT - LEFT),
                      QI(PAGE_H_MM - BOTTOM - BOTTOM)), "closed"), FALSE),
       Cmd(Poly(<<"draw_rect", "", 0>>, "BORDER",
                RectM(DRAW_X, DRAW_Y, DRAW_W, DRAW_H), "closed"), FALSE) >>

\* lines 219-226: the site rectangle, dashed
SiteCmds(l) ==
    << Cmd(Poly(<<"site", "", 0>>, "SITE",
                RectM(l.site_x_real, l.site_y_real, l.site_w_real, l.site_h_real),
                "GBA_DASH"), FALSE) >>

Sides == <<"north", "south", "east", "west">>

SideSet == {"north", "south", "east", "west"}

\* side.title()
Title(side) ==
    CASE side = "north" -> "North"
      [] side = "south" -> "South"
      [] side = "east"  -> "East"
      [] side = "west"  -> "West"

\* line 233
road_band_mm(info, l) == QMul(info.width, l.mm_per_m_real)

\* the band polygon of one side for a band rb thick: the vertex lists of
\* lines 235-239, 242-246, 249-253 and 256-260, in sheet millimetres
BandPoly(side, rb, l) ==
    LET x  == l.site_x_real
        y  == l.site_y_real
        w  == l.site_w_real
        h  == l.site_h_real
    IN  CASE side = "north" ->
               << <<x, QAdd(y, h)>>, <<QAdd(x, w), QAdd(y, h)>>,
                  <<QAdd(x, w), QAdd(QAdd(y, h), rb)>>, <<x, QAdd(QAdd(y, h), rb)>>,
                  <<x, QAdd(y, h)>> >>
          [] side = "south" ->
               << <<x, QSub(y, rb)>>, <<QAdd(x, w), QSub(y, rb)>>,
                  <<QAdd(x, w), y>>, <<x, y>>, <<x, QSub(y, rb)>> >>
          [] side = "east" ->
               << <<QAdd(x, w), y>>, <<QAdd(QAdd(x, w), rb), y>>,
                  <<QAdd(QAdd(x, w), rb), QAdd(y, h)>>, <<QAdd(x, w), QAdd(y, h)>>,
                  <<QAdd(x, w), y>> >>
          [] OTHER ->
               << <<QSub(x, rb), y>>, <<x, y>>, <<x, QAdd(y, h)>>,
                  <<QSub(x, rb), QAdd(y, h)>>, <<QSub(x, rb), y>> >>

\* mutant of poly_mm: the north and south bands run on over a west road
poly_mm_corners(side, info, l) ==
    LET west == form.road_info["west"]
        ext  == IF side \in {"north", "south"} /\ west.exists
                THEN QMul(west.width, l.mm_per_m_real) ELSE QI(0)
    IN  BandPoly(side, road_band_mm(info, l),
                 [l EXCEPT !.site_x_real = QSub(@, ext), !.site_w_real = QAdd(@, ext)])

\* lines 232-261: poly_mm of one iteration, from that side's info alone
poly_mm(side, info, l) == BandPoly(side, road_band_mm(info, l), l)

\* lines 240, 247, 254, 261: the label anchor of one side, in sheet millimetres
label_mm(side, info, l) ==
    LET x    == l.site_x_real
        y    == l.site_y_real
        w    == l.site_w_real
        h    == l.site_h_real
        half == QDiv(road_band_mm(info, l), QI(2))
    IN  CASE side = "north" ->
               <<QAdd(x, QDiv(w, QI(2))), QAdd(QAdd(QAdd(y, h), half), QI(3))>>
          [] side = "south" ->
               <<QAdd(x, QDiv(w, QI(2))), QSub(QSub(y, half), QI(3))>>
          [] side = "east" ->
               <<QAdd(QAdd(QAdd(x, w), half), QI(3)), QAdd(y, QDiv(h, QI(2)))>>
          [] OTHER ->
               <<QSub(QSub(x, half), QI(3)), QAdd(y, QDiv(h, QI(2)))>>

\* line 263 and line 266: millimetres to metres, point by point
PtM(p) == <<ToM(p[1]), ToM(p[2])>>

PolyM(pts) == [i \in 1..Len(pts) |-> PtM(pts[i])]

\* mutant of RoadDrawn: a ticked side of width 0 is skipped
RoadDrawn_nonzero(info) == info.exists /\ info.width.n > 0

\* line 230: a side is drawn when its checkbox is ticked
RoadDrawn(info) == info.exists

\* lines 229-267: one iteration of the road loop
RoadCmds(side, info, l) ==
    IF ~RoadDrawn(info) THEN << >>
    ELSE << Cmd(Poly(<<"road", side, 0>>, "ROAD", PolyM(poly_mm(side, info, l)),
                     "closed"), FALSE),
            Cmd(Text(<<"road_label", side, 0>>,
                     [s |-> <<Title(side), " (", " m ROAD)">>,
                      a |-> FmtFixed(info.width, 1), b |-> NoNum],
                     9, PtM(label_mm(side, info, l)), "MIDDLE_CENTER"), TRUE) >>

\* line 270: the site title, centred 18 mm above the site rectangle
SiteTitleCmds(f, l) ==
    << Cmd(Text(<<"site_title", "", 0>>, Txt(<<"SITE (SY.NO. ", f.survey_no, ")">>), 10,
                <<ToM(QAdd(l.site_x_real, QDiv(l.site_w_real, QI(2)))),
                  ToM(QAdd(QAdd(l.site_y_real, l.site_h_real), QI(18)))>>,
                "MIDDLE_CENTER"), TRUE) >>

\* lines 273-274
key_w_mm == 110
key_h_mm == 70
key_x_mm == INFO_X
key_y_mm == QI(PAGE_H_MM - TOP - key_h_mm)

\* lines 277-281
KeyBoxCmds ==
    << Cmd(Poly(<<"key_box", "", 0>>, "BORDER",
                RectM(key_x_mm, key_y_mm, QI(key_w_mm), QI(key_h_mm)), "closed"), FALSE) >>

\* lines 293-294 / 320-321: the raster placed 1 mm inside its box
ImagePrim(id, path, x, y, w, h) ==
    Prim(id, "image", "0",
         << <<ToM(QAdd(x, QI(1))), ToM(QAdd(y, QI(1)))>>,
            <<ToM(QSub(w, QI(2))), ToM(QSub(h, QI(2)))>> >>,
         Txt(path), QI(0), "")

\* lines 296-297
na_x_mm == QAdd(key_x_mm, QI(key_w_mm - 8))
na_y_mm == QAdd(key_y_mm, QI(key_h_mm - 18))

\* lines 293-299: the steps of the key-plan try block that add primitives
KeyImageCmds(path) ==
    << Cmd(ImagePrim(<<"key_image", "", 0>>, path, key_x_mm, key_y_mm,
                     QI(key_w_mm), QI(key_h_mm)), FALSE),
       Cmd(Line(<<"north_arrow", "", 0>>, <<ToM(na_x_mm), ToM(na_y_mm)>>,
                <<ToM(na_x_mm), ToM(QAdd(na_y_mm, QI(12)))>>), FALSE),
       Cmd(Text(<<"north_label", "", 0>>, Txt(<<"N">>), 6,
                <<ToM(na_x_mm), ToM(QAdd(na_y_mm, QI(14)))>>, "MIDDLE_CENTER"), TRUE) >>

\* line 301
KeyFallbackCmds ==
    << Cmd(Text(<<"key_fallback", "", 0>>, Txt(<<"KEY PLAN (To be inserted)">>), 9,
                <<ToM(QAdd(key_x_mm, QI(50))), ToM(QAdd(key_y_mm, QI(50)))>>, "LEFT"),
           TRUE) >>

\* lines 304-305
adlr_w_mm == 110
adlr_h_mm == 65
adlr_x_mm == INFO_X
adlr_y_mm == QSub(QSub(key_y_mm, QI(adlr_h_mm)), QI(10))

\* lines 307-311
AdlrBoxCmds ==
    << Cmd(Poly(<<"adlr_box", "", 0>>, "BORDER",
                RectM(adlr_x_mm, adlr_y_mm, QI(adlr_w_mm), QI(adlr_h_mm)), "closed"),
           FALSE) >>

\* lines 320-321
AdlrImageCmds(path) ==
    << Cmd(ImagePrim(<<"adlr_image", "", 0>>, path, adlr_x_mm, adlr_y_mm,
                     QI(adlr_w_mm), QI(adlr_h_mm)), FALSE) >>

\* line 323
AdlrFallbackCmds ==
    << Cmd(Text(<<"adlr_fallback", "", 0>>, Txt(<<"ADLR SKETCH (To be inserted)">>), 9,
                <<ToM(QAdd(adlr_x_mm, QI(50))), ToM(QAdd(adlr_y_mm, QI(50)))>>, "LEFT"),
           TRUE) >>

\* lines 326-332, 341
lut_x_mm == INFO_X
lut_y_mm == QSub(adlr_y_mm, QI(10))
tbl_w_mm == 12 + 55 + 30 + 20
header_y_mm == QAdd(lut_y_mm, QI(12))
col_w == <<12, 55, 30, 20>>
headers == <<"SL.No", "PARTICULARS", "AREA (Sq.m)", "%">>
row_h_mm == Q(65, 10)
NumRows == 2

\* xcur_mm at column i (lines 330, 335, 344, 347): the widths before it added up
RECURSIVE ColLeft(_)
ColLeft(i) == IF i = 1 THEN lut_x_mm ELSE QAdd(ColLeft(i - 1), QI(col_w[i - 1]))

\* the anchor of column i of a table line at height y (lines 334, 346)
CellPos(i, y) == <<ToM(QAdd(ColLeft(i), Q(col_w[i], 2))), ToM(y)>>

\* line 343
RowY(r_idx) == QSub(header_y_mm, QMul(QI(r_idx + 1), row_h_mm))

\* lines 337-340: the cells of row r_idx (0-based)
RowCell(f, r_idx, i) ==
    CASE i = 1 -> Txt(<<IF r_idx = 0 THEN "1" ELSE "2">>)
      [] i = 2 -> Txt(<<IF r_idx = 0 THEN "SITE AREA" ELSE "TOTAL SITE AREA">>)
      [] i = 3 -> [s |-> << >>, a |-> FmtProduct(f.site_width_m, f.site_length_m, 1),
                   b |-> NoNum]
      [] OTHER -> Txt(<<"100.00">>)

\* line 351: header_y_mm + 2 - (len(rows) + 1.2) * row_h_mm
TableBottom == QSub(QAdd(header_y_mm, QI(2)), QMul(Q(10 * NumRows + 12, 10), row_h_mm))

\* lines 349-353: the table border; the points are passed as computed, in millimetres
TableBorderPts ==
    LET x0 == QSub(lut_x_mm, Q(15, 10))
        x1 == QAdd(QAdd(x0, QI(tbl_w_mm)), QI(3))
        y1 == QAdd(header_y_mm, QI(2))
    IN  << <<x0, y1>>, <<x1, y1>>, <<x1, TableBottom>>, <<x0, TableBottom>>, <<x0, y1>> >>

\* lines 333-353: header texts, row texts, then the border
LandUseCmds(f) ==
    [i \in 1..4 |-> Cmd(Text(<<"lut_header", "", i>>, Txt(<<headers[i]>>), 9,
                             CellPos(i, header_y_mm), "MIDDLE_CENTER"), TRUE)]
    \o [k \in 1..(4 * NumRows) |->
          LET r_idx == (k - 1) \div 4
              i     == ((k - 1) % 4) + 1
          IN  Cmd(Text(<<"lut_cell", "", k>>, RowCell(f, r_idx, i), 7,
                       CellPos(i, RowY(r_idx)), "MIDDLE_CENTER"), TRUE)]
    \o << Cmd(Poly(<<"lut_border", "", 0>>, "BORDER", TableBorderPts, "open"), FALSE) >>

\* lines 356-357
gc_x_mm == INFO_X
gc_start_y_mm == QSub(QSub(header_y_mm, QMul(Q(10 * NumRows + 12, 10), row_h_mm)), QI(8))
NumConditions == 15

\* line 394
note_y_mm == QSub(gc_start_y_mm, QI(85))
NumNotes == 4

\* msp.add_mtext(...).set_location(...) (lines 378, 396)
MText(id, name, x, y) ==
    Prim(id, "mtext", "TEXT", << <<ToM(x), ToM(y)>> >>, Txt(<<name>>), Q(8, 1000), "")

\* lines 377-384 and 395-401: a text block as one MTEXT; when the MTEXT is
\* rejected, its lines one by one through safe_add_text, step_mm apart
BlockCmds(id, name, n, x, y, step_mm, rejected) ==
    IF <<id, "", 0>> \notin rejected
    THEN << Cmd(MText(<<id, "", 0>>, name, x, y), FALSE) >>
    ELSE [i \in 1..n |->
            Cmd(Text(<<id, "line", i>>, [s |-> <<name>>, a |-> [fmt |-> 0, val |-> i],
                                         b |-> NoNum],
                     8, <<ToM(x), ToM(QSub(y, QI(step_mm * (i - 1))))>>, "LEFT"), TRUE)]

GeneralConditionsCmds(rejected) ==
    BlockCmds("general_conditions", "wrapped_gc", NumConditions, gc_x_mm, gc_start_y_mm,
              12, rejected)

NotesCmds(rejected) ==
    BlockCmds("notes", "wrapped_note", NumNotes, gc_x_mm, note_y_mm, 10, rejected)

\* line 404
tb_x_mm == LEFT
tb_y_mm == BOTTOM
tb_w_mm == PAGE_W_MM - LEFT - RIGHT
tb_h_mm == 35

\* lines 413-414, in millimetres
dv1_mm == QAdd(QI(tb_x_mm), QMul(QI(tb_w_mm), Q(48, 100)))
dv2_mm == QAdd(QI(tb_x_mm), QMul(QI(tb_w_mm), Q(70, 100)))

\* a title-block text: 6 mm right of column x, `down` mm below the block's top
TbText(i, text, height_mm, x, down) ==
    Cmd(Text(<<"tb_text", "", i>>, text, height_mm,
             <<ToM(QAdd(x, QI(6))), ToM(QI(tb_y_mm + tb_h_mm - down))>>, "LEFT"), TRUE)

\* mutant of ScaleText: the scale the plot was drawn at, 1 : 1000 / mm_per_m_use
ScaleText_computed ==
    [s |-> <<"SCALE : 1:">>,
     a |-> IF lay.mm_per_m_real = QI(0) THEN FmtFixed(QI(100), 0)
           ELSE FmtFixed(QDiv(QI(1000), lay.mm_per_m_real), 0),
     b |-> NoNum]

\* line 420: f"SCALE : 1:{int(100)}"
ScaleText == [s |-> <<"SCALE : 1:">>, a |-> FmtFixed(QI(100), 0), b |-> NoNum]

\* lines 407-434
TitleBlockCmds(f) ==
    << Cmd(Poly(<<"title_block", "", 0>>, "BORDER",
                RectM(QI(tb_x_mm), QI(tb_y_mm), QI(tb_w_mm), QI(tb_h_mm)), "closed"), FALSE),
       Cmd(Line(<<"tb_divider", "", 1>>, <<ToM(dv1_mm), ToM(QI(tb_y_mm))>>,
                <<ToM(dv1_mm), ToM(QI(tb_y_mm + tb_h_mm))>>), FALSE),
       Cmd(Line(<<"tb_divider", "", 2>>, <<ToM(dv2_mm), ToM(QI(tb_y_mm))>>,
                <<ToM(dv2_mm), ToM(QI(tb_y_mm + tb_h_mm))>>), FALSE),
       TbText(1, Txt(<<"DRAWING TITLE : SINGLE SITE LAYOUT PLAN">>), 9, QI(tb_x_mm), 7),
       TbText(2, ScaleText, 7, QI(tb_x_mm), 13),
       TbText(3, [s |-> <<"TOTAL BUILT-UP AREA : ", " Sq.m">>,
                  a |-> FmtFixed(f.total_builtup, 2), b |-> NoNum], 7, QI(tb_x_mm), 19),
       TbText(4, Txt(<<"SY. NO. : ", f.survey_no>>), 7, QI(tb_x_mm), 25),
       TbText(5, Txt(<<"VILLAGE : ", f.village>>), 7, dv1_mm, 7),
       TbText(6, Txt(<<"TALUK : ", f.taluk>>), 7, dv1_mm, 13),
       TbText(7, Txt(<<"EPID : ", f.epid>>), 7, dv1_mm, 19),
       TbText(8, Txt(<<"ROAD NAME : ", "">>), 7, dv1_mm, 25),
       TbText(9, Txt(<<"ROAD WIDTH : ", "">>), 7, dv2_mm, 7),
       TbText(10, Txt(<<"ROAD FACING : ", "">>), 7, dv2_mm, 13),
       TbText(11, [s |-> <<"SITE DIMENSIONS : ", " m x ", " m">>,
                   a |-> FmtFixed(f.site_length_m, 2), b |-> FmtFixed(f.site_width_m, 2)],
              7, dv2_mm, 19),
       TbText(12, Txt(<<"WARD NO. : ", f.ward_no, "    CONSTITUENCY : ", f.constituency>>),
              7, dv2_mm, 25),
       Cmd(Text(<<"tb_text", "", 13>>, Txt(<<"All Dimensions in metres.">>), 6,
                <<ToM(QI(PAGE_W_MM - RIGHT - 4)), ToM(QI(tb_y_mm + 3))>>, "RIGHT"), TRUE) >>

\* lines 437-439
sig_box_w_mm == 40
sig_box_h_mm == 12
NumSigBoxes == 4
sig_start_x_mm == tb_x_mm + tb_w_mm - sig_box_w_mm - 6
sig_start_y_mm == tb_y_mm + tb_h_mm + 6

\* lines 440-448
SignatureCmds ==
    [k \in 1..NumSigBoxes |->
        Cmd(Poly(<<"sig_box", "", k>>, "BORDER",
                 RectM(QI(sig_start_x_mm),
                       QI(sig_start_y_mm + (k - 1) * (sig_box_h_mm + 4)),
                       QI(sig_box_w_mm), QI(sig_box_h_mm)), "closed"), FALSE)]

-----------------------------------------------------------------------------
(* Map centre (lines 123-145).  A text is the sequence of its characters.  *)

\* A character is a string: the character itself up to U+00FF, and the name
\* "U+" followed by the code point in hexadecimal (four digits at least) above.

\* The decimal digits of Unicode (category Nd) other than "0".."9", a block of ten
\* per script, in the order of their values
DecimalDigits ==
    { <<"U+0660", "U+0661", "U+0662", "U+0663", "U+0664", "U+0665", "U+0666", "U+0667", "U+0668", "U+0669">>,
      <<"U+06F0", "U+06F1", "U+06F2", "U+06F3", "U+06F4", "U+06F5", "U+06F6", "U+06F7", "U+06F8", "U+06F9">>,
      <<"U+07C0", "U+07C1", "U+07C2", "U+07C3", "U+07C4", "U+07C5", "U+07C6", "U+07C7", "U+07C8", "U+07C9">>,
      <<"U+0966", "U+0967", "U+0968", "U+0969", "U+096A", "U+096B", "U+096C", "U+096D", "U+096E", "U+096F">>,
      <<"U+09E6", "U+09E7", "U+09E8", "U+09E9", "U+09EA", "U+09EB", "U+09EC", "U+09ED", "U+09EE", "U+09EF">>,
      <<"U+0A66", "U+0A67", "U+0A68", "U+0A69", "U+0A6A", "U+0A6B", "U+0A6C", "U+0A6D", "U+0A6E", "U+0A6F">>,
      <<"U+0AE6", "U+0AE7", "U+0AE8", "U+0AE9", "U+0AEA", "U+0AEB", "U+0AEC", "U+0AED", "U+0AEE", "U+0AEF">>,
      <<"U+0B66", "U+0B67", "U+0B68", "U+0B69", "U+0B6A", "U+0B6B", "U+0B6C", "U+0B6D", "U+0B6E", "U+0B6F">>,
      <<"U+0BE6", "U+0BE7", "U+0BE8", "U+0BE9", "U+0BEA", "U+0BEB", "U+0BEC", "U+0BED", "U+0BEE", "U+0BEF">>,
      <<"U+0C66", "U+0C67", "U+0C68", "U+0C69", "U+0C6A", "U+0C6B", "U+0C6C", "U+0C6D", "U+0C6E", "U+0C6F">>,
      <<"U+0CE6", "U+0CE7", "U+0CE8", "U+0CE9", "U+0CEA", "U+0CEB", "U+0CEC", "U+0CED", "U+0CEE", "U+0CEF">>,
      <<"U+0D66", "U+0D67", "U+0D68", "U+0D69", "U+0D6A", "U+0D6B", "U+0D6C", "U+0D6D", "U+0D6E", "U+0D6F">>,
      <<"U+0DE6", "U+0DE7", "U+0DE8", "U+0DE9", "U+0DEA", "U+0DEB", "U+0DEC", "U+0DED", "U+0DEE", "U+0DEF">>,
      <<"U+0E50", "U+0E51", "U+0E52", "U+0E53", "U+0E54", "U+0E55", "U+0E56", "U+0E57", "U+0E58", "U+0E59">>,
      <<"U+0ED0", "U+0ED1", "U+0ED2", "U+0ED3", "U+0ED4", "U+0ED5", "U+0ED6", "U+0ED7", "U+0ED8", "U+0ED9">>,
      <<"U+0F20", "U+0F21", "U+0F22", "U+0F23", "U+0F24", "U+0F25", "U+0F26", "U+0F27", "U+0F28", "U+0F29">>,
      <<"U+1040", "U+1041", "U+1042", "U+1043", "U+1044", "U+1045", "U+1046", "U+1047", "U+1048", "U+1049">>,
      <<"U+1090", "U+1091", "U+1092", "U+1093", "U+1094", "U+1095", "U+1096", "U+1097", "U+1098", "U+1099">>,
      <<"U+17E0", "U+17E1", "U+17E2", "U+17E3", "U+17E4", "U+17E5", "U+17E6", "U+17E7", "U+17E8", "U+17E9">>,
      <<"U+1810", "U+1811", "U+1812", "U+1813", "U+1814", "U+1815", "U+1816", "U+1817", "U+1818", "U+1819">>,
      <<"U+1946", "U+1947", "U+1948", "U+1949", "U+194A", "U+194B", "U+194C", "U+194D", "U+194E", "U+194F">>,
      <<"U+19D0", "U+19D1", "U+19D2", "U+19D3", "U+19D4", "U+19D5", "U+19D6", "U+19D7", "U+19D8", "U+19D9">>,
      <<"U+1A80", "U+1A81", "U+1A82", "U+1A83", "U+1A84", "U+1A85", "U+1A86", "U+1A87", "U+1A88", "U+1A89">>,
      <<"U+1A90", "U+1A91", "U+1A92", "U+1A93", "U+1A94", "U+1A95", "U+1A96", "U+1A97", "U+1A98", "U+1A99">>,
      <<"U+1B50", "U+1B51", "U+1B52", "U+1B53", "U+1B54", "U+1B55", "U+1B56", "U+1B57", "U+1B58", "U+1B59">>,
      <<"U+1BB0", "U+1BB1", "U+1BB2", "U+1BB3", "U+1BB4", "U+1BB5", "U+1BB6", "U+1BB7", "U+1BB8", "U+1BB9">>,
      <<"U+1C40", "U+1C41", "U+1C42", "U+1C43", "U+1C44", "U+1C45", "U+1C46", "U+1C47", "U+1C48", "U+1C49">>,
      <<"U+1C50", "U+1C51", "U+1C52", "U+1C53", "U+1C54", "U+1C55", "U+1C56", "U+1C57", "U+1C58", "U+1C59">>,
      <<"U+A620", "U+A621", "U+A622", "U+A623", "U+A624", "U+A625", "U+A626", "U+A627", "U+A628", "U+A629">>,
      <<"U+A8D0", "U+A8D1", "U+A8D2", "U+A8D3", "U+A8D4", "U+A8D5", "U+A8D6", "U+A8D7", "U+A8D8", "U+A8D9">>,
      <<"U+A900", "U+A901", "U+A902", "U+A903", "U+A904", "U+A905", "U+A906", "U+A907", "U+A908", "U+A909">>,
      <<"U+A9D0", "U+A9D1", "U+A9D2", "U+A9D3", "U+A9D4", "U+A9D5", "U+A9D6", "U+A9D7", "U+A9D8", "U+A9D9">>,
      <<"U+A9F0", "U+A9F1", "U+A9F2", "U+A9F3", "U+A9F4", "U+A9F5", "U+A9F6", "U+A9F7", "U+A9F8", "U+A9F9">>,
      <<"U+AA50", "U+AA51", "U+AA52", "U+AA53", "U+AA54", "U+AA55", "U+AA56", "U+AA57", "U+AA58", "U+AA59">>,
      <<"U+ABF0", "U+ABF1", "U+ABF2", "U+ABF3", "U+ABF4", "U+ABF5", "U+ABF6", "U+ABF7", "U+ABF8", "U+ABF9">>,
      <<"U+FF10", "U+FF11", "U+FF12", "U+FF13", "U+FF14", "U+FF15", "U+FF16", "U+FF17", "U+FF18", "U+FF19">>,
      <<"U+104A0", "U+104A1", "U+104A2", "U+104A3", "U+104A4", "U+104A5", "U+104A6", "U+104A7", "U+104A8", "U+104A9">>,
      <<"U+10D30", "U+10D31", "U+10D32", "U+10D33", "U+10D34", "U+10D35", "U+10D36", "U+10D37", "U+10D38", "U+10D39">>,
      <<"U+11066", "U+11067", "U+11068", "U+11069", "U+1106A", "U+1106B", "U+1106C", "U+1106D", "U+1106E", "U+1106F">>,
      <<"U+110F0", "U+110F1", "U+110F2", "U+110F3", "U+110F4", "U+110F5", "U+110F6", "U+110F7", "U+110F8", "U+110F9">>,
      <<"U+11136", "U+11137", "U+11138", "U+11139", "U+1113A", "U+1113B", "U+1113C", "U+1113D", "U+1113E", "U+1113F">>,
      <<"U+111D0", "U+111D1", "U+111D2", "U+111D3", "U+111D4", "U+111D5", "U+111D6", "U+111D7", "U+111D8", "U+111D9">>,
      <<"U+112F0", "U+112F1", "U+112F2", "U+112F3", "U+112F4", "U+112F5", "U+112F6", "U+112F7", "U+112F8", "U+112F9">>,
      <<"U+11450", "U+11451", "U+11452", "U+11453", "U+11454", "U+11455", "U+11456", "U+11457", "U+11458", "U+11459">>,
      <<"U+114D0", "U+114D1", "U+114D2", "U+114D3", "U+114D4", "U+114D5", "U+114D6", "U+114D7", "U+114D8", "U+114D9">>,
      <<"U+11650", "U+11651", "U+11652", "U+11653", "U+11654", "U+11655", "U+11656", "U+11657", "U+11658", "U+11659">>,
      <<"U+116C0", "U+116C1", "U+116C2", "U+116C3", "U+116C4", "U+116C5", "U+116C6", "U+116C7", "U+116C8", "U+116C9">>,
      <<"U+11730", "U+11731", "U+11732", "U+11733", "U+11734", "U+11735", "U+11736", "U+11737", "U+11738", "U+11739">>,
      <<"U+118E0", "U+118E1", "U+118E2", "U+118E3", "U+118E4", "U+118E5", "U+118E6", "U+118E7", "U+118E8", "U+118E9">>,
      <<"U+11950", "U+11951", "U+11952", "U+11953", "U+11954", "U+11955", "U+11956", "U+11957", "U+11958", "U+11959">>,
      <<"U+11C50", "U+11C51", "U+11C52", "U+11C53", "U+11C54", "U+11C55", "U+11C56", "U+11C57", "U+11C58", "U+11C59">>,
      <<"U+11D50", "U+11D51", "U+11D52", "U+11D53", "U+11D54", "U+11D55", "U+11D56", "U+11D57", "U+11D58", "U+11D59">>,
      <<"U+11DA0", "U+11DA1", "U+11DA2", "U+11DA3", "U+11DA4", "U+11DA5", "U+11DA6", "U+11DA7", "U+11DA8", "U+11DA9">>,
      <<"U+16A60", "U+16A61", "U+16A62", "U+16A63", "U+16A64", "U+16A65", "U+16A66", "U+16A67", "U+16A68", "U+16A69">>,
      <<"U+16AC0", "U+16AC1", "U+16AC2", "U+16AC3", "U+16AC4", "U+16AC5", "U+16AC6", "U+16AC7", "U+16AC8", "U+16AC9">>,
      <<"U+16B50", "U+16B51", "U+16B52", "U+16B53", "U+16B54", "U+16B55", "U+16B56", "U+16B57", "U+16B58", "U+16B59">>,
      <<"U+1D7CE", "U+1D7CF", "U+1D7D0", "U+1D7D1", "U+1D7D2", "U+1D7D3", "U+1D7D4", "U+1D7D5", "U+1D7D6", "U+1D7D7">>,
      <<"U+1D7D8", "U+1D7D9", "U+1D7DA", "U+1D7DB", "U+1D7DC", "U+1D7DD", "U+1D7DE", "U+1D7DF", "U+1D7E0", "U+1D7E1">>,
      <<"U+1D7E2", "U+1D7E3", "U+1D7E4", "U+1D7E5", "U+1D7E6", "U+1D7E7", "U+1D7E8", "U+1D7E9", "U+1D7EA", "U+1D7EB">>,
      <<"U+1D7EC", "U+1D7ED", "U+1D7EE", "U+1D7EF", "U+1D7F0", "U+1D7F1", "U+1D7F2", "U+1D7F3", "U+1D7F4", "U+1D7F5">>,
      <<"U+1D7F6", "U+1D7F7", "U+1D7F8", "U+1D7F9", "U+1D7FA", "U+1D7FB", "U+1D7FC", "U+1D7FD", "U+1D7FE", "U+1D7FF">>,
      <<"U+1E140", "U+1E141", "U+1E142", "U+1E143", "U+1E144", "U+1E145", "U+1E146", "U+1E147", "U+1E148", "U+1E149">>,
      <<"U+1E2F0", "U+1E2F1", "U+1E2F2", "U+1E2F3", "U+1E2F4", "U+1E2F5", "U+1E2F6", "U+1E2F7", "U+1E2F8", "U+1E2F9">>,
      <<"U+1E950", "U+1E951", "U+1E952", "U+1E953", "U+1E954", "U+1E955", "U+1E956", "U+1E957", "U+1E958", "U+1E959">>,
      <<"U+1FBF0", "U+1FBF1", "U+1FBF2", "U+1FBF3", "U+1FBF4", "U+1FBF5", "U+1FBF6", "U+1FBF7", "U+1FBF8", "U+1FBF9">> }

\* the value of a decimal digit, as float() reads it; -1 for any other character
DigitVal(c) ==
    CASE c = "0" -> 0 [] c = "1" -> 1 [] c = "2" -> 2 [] c = "3" -> 3 [] c = "4" -> 4
      [] c = "5" -> 5 [] c = "6" -> 6 [] c = "7" -> 7 [] c = "8" -> 8 [] c = "9" -> 9
      [] OTHER -> LET at == {k \in 1..10 : \E b \in DecimalDigits : b[k] = c}
                  IN  IF at = {} THEN -1 ELSE (CHOOSE k \in at : TRUE) - 1

IsDigit(c) == DigitVal(c) >= 0

\* The characters str.strip() removes (those with str.isspace()): blank, tab,
\* newline, vertical tab, form feed, carriage return, U+001C..U+001F, U+0085,
\* U+00A0, and above U+00FF the seventeen space characters of Unicode
StripSpace ==
    {" ", "\t", "\n", "\r", "\f", "", "", "", "", "", "", " ",
     "U+1680", "U+2000", "U+2001", "U+2002", "U+2003", "U+2004", "U+2005", "U+2006",
     "U+2007", "U+2008", "U+2009", "U+200A", "U+2028", "U+2029", "U+202F", "U+205F",
     "U+3000"}

\* The characters float() ignores around a number: the same without U+001C..U+001F
FloatSpace == StripSpace \ {"", "", "", ""}

\* A loop over the characters of a text runs from level TextLevels: at most
\* Radix^(TextLevels + 1) steps, more than a text of the form can hold.
TextLevels == 7

\* the first position from i on, forwards (step = 1) or backwards (step = -1), that
\* holds a character outside ws: past the end of t if there is none
RECURSIVE SkipRun(_, _, _, _, _, _)
SkipRun(t, ws, i, step, lvl, k) ==
    IF k = 0 \/ i < 1 \/ i > Len(t) \/ t[i] \notin ws THEN i
    ELSE SkipRun(t, ws, IF lvl = 0 THEN i + step ELSE SkipRun(t, ws, i, step, lvl - 1, Radix),
                 step, lvl, k - 1)

LTrim(t, ws) == SubSeq(t, SkipRun(t, ws, 1, 1, TextLevels, Radix), Len(t))

RTrim(t, ws) == SubSeq(t, 1, SkipRun(t, ws, Len(t), -1, TextLevels, Radix))

\* str.strip(): leading and trailing whitespace removed
LStrip(t) == LTrim(t, StripSpace)

RStrip(t) == RTrim(t, StripSpace)

Strip(t) == RStrip(LStrip(t))

\* "," in text
HasComma(t) == \E i \in 1..Len(t) : t[i] = ","

\* text.split(",", 1) of a text that holds a comma
FirstComma(t) == CHOOSE i \in 1..Len(t) : t[i] = "," /\ \A j \in 1..(i - 1) : t[j] # ","

SplitOnce(t) ==
    LET i == FirstComma(t)
    IN  <<SubSeq(t, 1, i - 1), SubSeq(t, i + 1, Len(t))>>

\* A float of the program is [neg, e, m]: the sign, and e and m as above, with
\* the two extensions of the format: below 2^MinExp the exponent stays MinExp and
\* m starts with zeros; e = ExpInf is an infinity (m empty) or nan.  The sign of a
\* zero is dropped, -0.0 and 0.0 being equal and alike in every use here.
MinExp == -1022
ExpInf == 1024

Zero == [neg |-> FALSE, e |-> 0, m |-> << >>]
NaN == [neg |-> FALSE, e |-> ExpInf, m |-> <<1>>]
Inf == [neg |-> FALSE, e |-> ExpInf, m |-> << >>]
NegInf == [neg |-> TRUE, e |-> ExpInf, m |-> << >>]
IsFinite(x) == x.e < ExpInf

\* the float written as the decimal literal x in the source
WithSign(neg, f) == [neg |-> neg, e |-> f.e, m |-> f.m]

FloatLit(x) == WithSign(x.n < 0, ToFloat(IF x.n < 0 THEN Q(-x.n, x.d) ELSE x))

NoFloat == [ok |-> FALSE, v |-> Zero]

Lower(c) ==
    CASE c = "A" -> "a" [] c = "F" -> "f" [] c = "I" -> "i" [] c = "N" -> "n"
      [] c = "T" -> "t" [] c = "Y" -> "y" [] OTHER -> c

\* The number syntax of float(), read character by character from position i on.
\* st.q is where the scan is:
\*   "start"  nothing read           "int"   digits        "int_"  digits and "_"
\*   "dot0"   "." without digits     "dot"   digits "."    "frac"  fraction digits
\*   "frac_"  fraction digits "_"    "e"     "e" or "E"    "esign" exponent sign
\*   "exp"    exponent digits        "exp_"  exponent digits and "_"
\*   "bad"    not a number
\* st.i is the position of the next character.  st.ds holds the digits read from
\* the first that is not 0 on, st.fr how many digits were read after the point, and
\* st.ex the exponent (eneg: with "-"), so that the number is the integer st.ds
\* times 10^(+-ex - fr).  The exponent is read as the strtod of float() reads it:
\* zeros in front are skipped, st.en counts the digits after them, and with more
\* than MaxExpDigits of these the exponent is MaxAbsExp, whatever they are.  (A
\* text of 10^9 digits or more, which float() treats apart, is beyond the model.)
\* ScanStep reads the character c, whose digit value is v.
MaxExpDigits == 9
MaxAbsExp == 1100000000

ScanStep(st, c, v) ==
    LET q == st.q
    IN  CASE v >= 0 /\ q \in {"start", "int", "int_"} ->
                [st EXCEPT !.q = "int",
                           !.ds = IF @ = << >> /\ v = 0 THEN @ ELSE Append(@, v)]
          [] v >= 0 /\ q \in {"dot0", "dot", "frac", "frac_"} ->
                [st EXCEPT !.q = "frac", !.fr = @ + 1,
                           !.ds = IF @ = << >> /\ v = 0 THEN @ ELSE Append(@, v)]
          [] v >= 0 /\ q \in {"e", "esign", "exp", "exp_"} ->
                [st EXCEPT !.q = "exp",
                           !.ex = IF st.en = 0 /\ v = 0 THEN @
                                  ELSE IF st.en >= MaxExpDigits THEN MaxAbsExp
                                  ELSE 10 * @ + v,
                           !.en = IF (st.en = 0 /\ v = 0) \/ @ > MaxExpDigits THEN @
                                  ELSE @ + 1]
          [] c = "_" /\ q \in {"int", "frac", "exp"} ->
                [st EXCEPT !.q = IF q = "int" THEN "int_"
                                 ELSE IF q = "frac" THEN "frac_" ELSE "exp_"]
          [] c = "." /\ q \in {"start", "int"} ->
                [st EXCEPT !.q = IF q = "start" THEN "dot0" ELSE "dot"]
          [] c \in {"e", "E"} /\ q \in {"int", "dot", "frac"} ->
                [st EXCEPT !.q = "e"]
          [] c \in {"+", "-"} /\ q = "e" ->
                [st EXCEPT !.q = "esign", !.eneg = (c = "-")]
          [] OTHER -> [st EXCEPT !.q = "bad"]

\* the character at st.i read
ScanAt(st, t) == [ScanStep(st, t[st.i], DigitVal(t[st.i])) EXCEPT !.i = @ + 1]

\* ScanAt to the end of t, or until the text has left the syntax
RECURSIVE ScanRun(_, _, _, _)
ScanRun(st, t, lvl, k) ==
    IF k = 0 \/ st.i > Len(t) \/ st.q = "bad" THEN st
    ELSE ScanRun(IF lvl = 0 THEN ScanAt(st, t) ELSE ScanRun(st, t, lvl - 1, Radix),
                 t, lvl, k - 1)

ScanNumber(t) ==
    ScanRun([q |-> "start", ds |-> << >>, fr |-> 0, ex |-> 0, en |-> 0, eneg |-> FALSE,
             i |-> 1], t, TextLevels, Radix)

\* Decimal to binary, digit string by digit string (most significant digit
\* first).  HalfDigits halves an integer; TwiceDigits doubles a fraction and
\* leaves out the carry, which is 1 when the first digit is 5 or more.
HalfDigits(ds) ==
    [i \in 1..Len(ds) |-> (ds[i] + (IF i > 1 THEN 10 * (ds[i - 1] % 2) ELSE 0)) \div 2]

TwiceDigits(ds) ==
    [i \in 1..Len(ds) |->
        ((2 * ds[i]) % 10) + (IF i < Len(ds) /\ ds[i + 1] >= 5 THEN 1 ELSE 0)]

\* No float has a bit below 2^-1074; the bit after it decides the rounding.
LastBit == 1075

\* The conversion is at st = [ip, fp, ibits, fbits, lead, pos]: ip the integer
\* part still to halve (no leading zero) and ibits its bits so far, lowest first;
\* fp the fraction still to double (no trailing zero), pos the number of its bits
\* taken, lead those that were zeros before the first 1 of the number, fbits the
\* others.  It ends when both parts are used up, or MantBits + 1 bits of the
\* number are known, or the fraction has given its bits down to 2^-LastBit.
BitsDone(st) ==
    /\ st.ip = << >>
    /\ \/ st.fp = << >>
       \/ Len(st.ibits) + Len(st.fbits) > MantBits
       \/ st.pos >= LastBit

BitsStep(st) ==
    IF st.ip # << >>
    THEN LET h == HalfDigits(st.ip)
         IN  [st EXCEPT !.ip = SubSeq(h, IF h[1] = 0 THEN 2 ELSE 1, Len(st.ip)),
                        !.ibits = Append(@, st.ip[Len(st.ip)] % 2)]
    ELSE LET d == TwiceDigits(st.fp)
             n == Len(st.fp)
             b == IF st.fp[1] >= 5 THEN 1 ELSE 0
             started == st.ibits # << >> \/ st.fbits # << >> \/ b = 1
         IN  [st EXCEPT !.fp = SubSeq(d, 1, IF d[n] = 0 THEN n - 1 ELSE n),
                        !.pos = @ + 1,
                        !.lead = IF started THEN @ ELSE @ + 1,
                        !.fbits = IF started THEN Append(@, b) ELSE @]

\* BitsStep until BitsDone, at most k * Radix^lvl times
RECURSIVE BitsRun(_, _, _)
BitsRun(st, lvl, k) ==
    IF k = 0 \/ BitsDone(st) THEN st
    ELSE BitsRun(IF lvl = 0 THEN BitsStep(st) ELSE BitsRun(st, lvl - 1, Radix), lvl, k - 1)

\* where the conversion of 0.d1 d2 ... dn * 10^p (d1 # 0) starts
StartBits(ds, p) ==
    LET n   == Len(ds)
        np  == IF p < 0 THEN 0 ELSE IF p > n THEN n ELSE p
        ip  == [i \in 1..(IF p > 0 THEN p ELSE 0) |-> IF i <= n THEN ds[i] ELSE 0]
        fp  == [i \in 1..(n - np - (IF p < 0 THEN p ELSE 0)) |->
                   IF p < 0 THEN (IF i <= -p THEN 0 ELSE ds[i + p]) ELSE ds[np + i]]
        last == {i \in 1..Len(fp) : fp[i] # 0 /\ \A j \in (i + 1)..Len(fp) : fp[j] = 0}
    IN  [ip |-> SubSeq(ip, 1, Len(ip)),
         fp |-> SubSeq(fp, 1, IF last = {} THEN 0 ELSE CHOOSE i \in last : TRUE),
         ibits |-> << >>, fbits |-> << >>, lead |-> 0, pos |-> 0]

\* The float of the bits st found, ties to even: the first MantBits bits from 2^e
\* down, e the exponent of the leading bit or MinExp if that is below it, rounded
\* by the bit after them and the rest.
RoundSig(st, neg) ==
    LET nb  == Len(st.ibits)
        sig == [i \in 1..(nb + Len(st.fbits)) |->
                   IF i <= nb THEN st.ibits[nb + 1 - i] ELSE st.fbits[i - nb]]
        e   == IF nb > 0 THEN nb - 1 ELSE -(st.lead + 1)
        e0  == IF e < MinExp THEN MinExp ELSE e
        sh  == e0 - e
        bit(i) == IF i > sh /\ i - sh <= Len(sig) THEN sig[i - sh] ELSE 0
        r   == RoundBits(e0, [i \in 1..MantBits |-> bit(i)], bit(MantBits + 1),
                         st.fp # << >>
                         \/ \E j \in 1..Len(sig) : j + sh > MantBits + 1 /\ sig[j] = 1)
    IN  IF sig = << >> \/ \A i \in 1..MantBits : r.m[i] = 0 THEN Zero
        ELSE IF r.e >= ExpInf THEN (IF neg THEN NegInf ELSE Inf)
        ELSE [neg |-> neg, e |-> r.e, m |-> r.m]

\* the float nearest to the decimal 0.d1 d2 ... dn * 10^p (d1 # 0)
DecimalToFloat(ds, p, neg) == RoundSig(BitsRun(StartBits(ds, p), 2, Radix), neg)

\* The float of a scanned number.  With n digits from the first that is not 0,
\* the number is 0.d1 ... dn * 10^p for p = n +- ex - fr, at least 10^(p - 1)
\* and below 10^p: above every float from p = MaxExp10 + 1 on, which makes it
\* inf, and below half the least float up to p = MinExp10, which makes it 0.0.
MaxExp10 == 309
MinExp10 == -324

ScanValue(st, neg) ==
    LET p == Len(st.ds) + (IF st.eneg THEN -st.ex ELSE st.ex) - st.fr
    IN  IF st.ds = << >> THEN Zero
        ELSE IF p > MaxExp10 THEN (IF neg THEN NegInf ELSE Inf)
        ELSE IF p <= MinExp10 THEN Zero
        ELSE DecimalToFloat(st.ds, p, neg)

\* a scan that ended inside a number or outside the syntax is no float
ScanResult(st, neg) ==
    IF st.q \in {"int", "dot", "frac", "exp"} THEN [ok |-> TRUE, v |-> ScanValue(st, neg)]
    ELSE NoFloat

\* float(text), lines 129 and 138: whitespace around is ignored, then [sign] and
\* "inf", "infinity" or "nan" in any case, or [sign] digits [. [digits]]
\* [exponent] or [sign] . digits [exponent], with single "_" between digits;
\* anything else raises ValueError (ok = FALSE)
ParseFloat(text) ==
    LET t    == RTrim(LTrim(text, FloatSpace), FloatSpace)
        neg  == t # << >> /\ Head(t) = "-"
        sgn  == t # << >> /\ Head(t) \in {"-", "+"}
        body == IF sgn THEN Tail(t) ELSE t
        word == [i \in 1..Len(body) |-> Lower(body[i])]
    IN  IF word \in {<<"i", "n", "f">>, <<"i", "n", "f", "i", "n", "i", "t", "y">>}
        THEN [ok |-> TRUE, v |-> IF neg THEN NegInf ELSE Inf]
        ELSE IF word = <<"n", "a", "n">> THEN [ok |-> TRUE, v |-> NaN]
        ELSE ScanResult(ScanNumber(body), neg)

NoLatLon == [some |-> FALSE, lat |-> Zero, lon |-> Zero]

LatLon(lat, lon) == [some |-> TRUE, lat |-> lat, lon |-> lon]

\* line 145: default Bangalore
DefaultLatLon == LatLon(FloatLit(Q(129715987, 10000000)), FloatLit(Q(775945627, 10000000)))

\* lines 129 and 138: the pair of two floats, unless float() raised for one
BothFloats(a, b) == IF a.ok /\ b.ok THEN LatLon(a.v, b.v) ELSE NoLatLon

\* lines 127-132: "lat,lon" text
ParsePair(txt) ==
    LET ab == SplitOnce(txt)
    IN  BothFloats(ParseFloat(Strip(ab[1])), ParseFloat(Strip(ab[2])))

\* lines 134-141: the answer of the geocoding request decides.
\*   "error"      the request or r.json() raises
\*   "empty"      the service answers with an empty list
\*   "malformed"  data[0] has no usable "lat" / "lon"
\*   "hit"        data[0] holds the texts reply.lat and reply.lon
Geocode(reply) ==
    IF reply.kind = "hit"
    THEN BothFloats(ParseFloat(reply.lat), ParseFloat(reply.lon))
    ELSE NoLatLon

\* mutant of OrDefault: a zero latitude counts as no centre
OrDefault_falsy(picked) == IF picked.some /\ picked.lat # Zero THEN picked ELSE DefaultLatLon

\* line 143-145: `if not picked_latlon` replaces only None
OrDefault(picked) == IF picked.some THEN picked ELSE DefaultLatLon

\* lines 124-145
ResolveCentreOf(kp_center_txt, reply) ==
    OrDefault(IF Strip(kp_center_txt) = << >> THEN NoLatLon
              ELSE IF HasComma(kp_center_txt) THEN ParsePair(kp_center_txt)
              ELSE Geocode(reply))

\* mutant of AdlrZoomOf: no cap at 19
AdlrZoomOf_uncapped(kp_zoom) == kp_zoom + 3

\* line 148
AdlrZoomOf(kp_zoom) == IF kp_zoom + 3 < 19 THEN kp_zoom + 3 ELSE 19

\* line 149
AdlrBufferM == 50

-----------------------------------------------------------------------------
(* Map tiles (lines 40-83).  Both calls pass tiles_radius=1, scale=2.      *)

tiles_radius == 1
tile_px == 256 * 2
cols == 2 * tiles_radius + 1
MaxZoom == 19

\* Lines 43-44 and 77 use log, tan and cos.  For the centres of this model the
\* three tables hold the values of those expressions, as the floats give them:
\*   LonWorldPx(lon) = floor(X * 2^19 * 512),  X = (lon + 180.0) / 360.0    (line 43)
\*   LatWorldPx(lat) = floor(Y * 2^19 * 512),
\*                     Y = (1.0 - log(tan(lat) + 1 / cos(lat)) / pi) / 2.0  (line 44)
\*   Mpp19(lat)      = C / (512 * 2^19),  C = cos(lat) * 2 * pi * R         (line 77)
\* xtile, ytile and mpp of a zoom are X * 2^zoom, Y * 2^zoom and C / 2^(9 + zoom)
\* without a further rounding, a power of two being an exact factor.
LonWorldPx(lon) ==
    CASE lon = FloatLit(Q(775945627, 10000000)) -> 192076427
      [] lon = FloatLit(Q(775, 10))             -> 192005916
      [] lon = FloatLit(Q(5, 10)) -> 134590555
      [] lon = FloatLit(QI(0)) -> 134217728
      [] lon = FloatLit(Q(766, 10)) -> 191334827
      [] lon = FloatLit(QI(70)) -> 186413511

\* Lines 40-44 and 65: whether the projection returns.  math.floor raises for a
\* tile coordinate that is nan or infinite, math.tan for an infinite latitude,
\* and math.log for an argument that is not positive.

\* Line 43: xtile is infinite when (lon + 180.0) / 360.0 reaches 2^(ExpInf - zoom),
\* which the rounding of the quotient makes happen from 360 * 2^(ExpInf - zoom) on,
\* 180.0 being nothing to a longitude of that size.  360 is 45 * 2^3: its exponent
\* is 8 and its first six bits are 45.
LonOverflows(lon, zoom) ==
    /\ lon # Zero
    /\ \/ lon.e + zoom > ExpInf + 8
       \/ lon.e + zoom = ExpInf + 8 /\ BitsMod(lon.m, 1, 6, 64) >= 45

\* Latitudes are measured in units of 2^-DegBits degree, which is one unit in the
\* last place of a float of exponent UlpExp.
DegBits == 18
UlpExp == MantBits - 1 - DegBits
Deg(d) == d * Pow2(DegBits)

\* the float nearest to ip + fr / 10^7 degrees (ip >= 10), negated for neg
Deg7(neg, ip, fr) ==
    LET n == IF ip >= 100 THEN 3 ELSE 2
    IN  DecimalToFloat([i \in 1..(n + 7) |->
                           IF i <= n THEN (ip \div Pow10(n - i)) % 10
                           ELSE (fr \div Pow10(n + 7 - i)) % 10],
                       n, neg)

\* Line 44, for a latitude so near a right angle that the rounding of the floats
\* decides (see LatProjects): the latitudes of the model there, by what
\* math.log(math.tan(lat_rad) + 1 / math.cos(lat_rad)) does for them
ZoneReturns ==
    {Deg7(t[1], t[2], t[3]) : t \in
        {<<FALSE, 90, 0>>, <<TRUE, 89, 9999994>>, <<TRUE, 89, 9999990>>,
         <<TRUE, 89, 9999988>>, <<TRUE, 89, 9999986>>, <<TRUE, 89, 9999984>>,
         <<TRUE, 89, 9999982>>, <<TRUE, 89, 9999980>>, <<TRUE, 89, 9999978>>,
         <<TRUE, 89, 9999976>>, <<TRUE, 89, 9999974>>, <<TRUE, 89, 9999972>>,
         <<TRUE, 89, 9999970>>, <<TRUE, 89, 9999968>>, <<TRUE, 89, 9999966>>,
         <<TRUE, 89, 9999964>>, <<TRUE, 89, 9999962>>, <<FALSE, 270, 2>>,
         <<FALSE, 270, 10>>, <<FALSE, 270, 12>>, <<FALSE, 270, 14>>,
         <<FALSE, 270, 16>>, <<FALSE, 270, 18>>, <<FALSE, 270, 20>>,
         <<FALSE, 270, 22>>, <<FALSE, 270, 24>>, <<FALSE, 270, 26>>,
         <<FALSE, 270, 28>>, <<FALSE, 270, 30>>, <<FALSE, 270, 32>>,
         <<FALSE, 270, 34>>, <<FALSE, 270, 36>>, <<FALSE, 270, 38>>,
         <<FALSE, 450, 0>>, <<TRUE, 449, 9999988>>, <<TRUE, 449, 9999986>>,
         <<TRUE, 449, 9999984>>, <<TRUE, 449, 9999982>>, <<TRUE, 449, 9999980>>,
         <<TRUE, 449, 9999978>>, <<TRUE, 449, 9999976>>, <<TRUE, 449, 9999974>>,
         <<TRUE, 449, 9999972>>, <<TRUE, 449, 9999970>>, <<TRUE, 449, 9999968>>,
         <<TRUE, 449, 9999966>>, <<TRUE, 449, 9999964>>, <<TRUE, 449, 9999962>>,
         <<FALSE, 630, 2>>, <<FALSE, 630, 6>>, <<FALSE, 630, 10>>, <<FALSE, 630, 12>>,
         <<FALSE, 630, 14>>, <<FALSE, 630, 16>>, <<FALSE, 630, 18>>,
         <<FALSE, 630, 20>>, <<FALSE, 630, 22>>, <<FALSE, 630, 24>>,
         <<FALSE, 630, 26>>, <<FALSE, 630, 28>>, <<FALSE, 630, 30>>,
         <<FALSE, 630, 32>>, <<FALSE, 630, 34>>, <<FALSE, 630, 36>>,
         <<FALSE, 630, 38>>}}

ZoneRaises ==
    {Deg7(t[1], t[2], t[3]) : t \in
        {<<TRUE, 90, 0>>, <<TRUE, 90, 2>>, <<TRUE, 89, 9999998>>, <<TRUE, 90, 4>>,
         <<TRUE, 89, 9999996>>, <<TRUE, 90, 6>>, <<TRUE, 90, 8>>,
         <<TRUE, 89, 9999992>>, <<TRUE, 90, 10>>, <<TRUE, 90, 12>>, <<TRUE, 90, 14>>,
         <<TRUE, 90, 16>>, <<TRUE, 90, 18>>, <<TRUE, 90, 20>>, <<TRUE, 90, 22>>,
         <<TRUE, 90, 24>>, <<TRUE, 90, 26>>, <<TRUE, 90, 28>>, <<TRUE, 90, 30>>,
         <<TRUE, 90, 32>>, <<TRUE, 90, 34>>, <<TRUE, 90, 36>>, <<TRUE, 90, 38>>,
         <<FALSE, 270, 0>>, <<FALSE, 269, 9999998>>, <<FALSE, 270, 4>>,
         <<FALSE, 269, 9999996>>, <<FALSE, 270, 6>>, <<FALSE, 269, 9999994>>,
         <<FALSE, 270, 8>>, <<FALSE, 269, 9999992>>, <<FALSE, 269, 9999990>>,
         <<FALSE, 269, 9999988>>, <<FALSE, 269, 9999986>>, <<FALSE, 269, 9999984>>,
         <<FALSE, 269, 9999982>>, <<FALSE, 269, 9999980>>, <<FALSE, 269, 9999978>>,
         <<FALSE, 269, 9999976>>, <<FALSE, 269, 9999974>>, <<FALSE, 269, 9999972>>,
         <<FALSE, 269, 9999970>>, <<FALSE, 269, 9999968>>, <<FALSE, 269, 9999966>>,
         <<FALSE, 269, 9999964>>, <<FALSE, 269, 9999962>>, <<TRUE, 270, 0>>,
         <<TRUE, 450, 0>>, <<TRUE, 450, 2>>, <<TRUE, 449, 9999998>>, <<TRUE, 450, 4>>,
         <<TRUE, 449, 9999996>>, <<TRUE, 450, 6>>, <<TRUE, 449, 9999994>>,
         <<TRUE, 450, 8>>, <<TRUE, 449, 9999992>>, <<TRUE, 450, 10>>,
         <<TRUE, 449, 9999990>>, <<TRUE, 450, 12>>, <<TRUE, 450, 14>>,
         <<TRUE, 450, 16>>, <<TRUE, 450, 18>>, <<TRUE, 450, 20>>, <<TRUE, 450, 22>>,
         <<TRUE, 450, 24>>, <<TRUE, 450, 26>>, <<TRUE, 450, 28>>, <<TRUE, 450, 30>>,
         <<TRUE, 450, 32>>, <<TRUE, 450, 34>>, <<TRUE, 450, 36>>, <<TRUE, 450, 38>>,
         <<FALSE, 630, 0>>, <<FALSE, 629, 9999998>>, <<FALSE, 630, 4>>,
         <<FALSE, 629, 9999996>>, <<FALSE, 629, 9999994>>, <<FALSE, 630, 8>>,
         <<FALSE, 629, 9999992>>, <<FALSE, 629, 9999990>>, <<FALSE, 629, 9999988>>,
         <<FALSE, 629, 9999986>>, <<FALSE, 629, 9999984>>, <<FALSE, 629, 9999982>>,
         <<FALSE, 629, 9999980>>, <<FALSE, 629, 9999978>>, <<FALSE, 629, 9999976>>,
         <<FALSE, 629, 9999974>>, <<FALSE, 629, 9999972>>, <<FALSE, 629, 9999970>>,
         <<FALSE, 629, 9999968>>, <<FALSE, 629, 9999966>>, <<FALSE, 629, 9999964>>,
         <<FALSE, 629, 9999962>>, <<TRUE, 630, 0>>}}

\* Line 44: tan(lat_rad) + 1 / cos(lat_rad) is (1 + sin) / cos, positive where the
\* cosine is: of the latitude modulo 360 (a, from its absolute value), not
\* between 90 and 270.  The floats follow that except near a right angle:
\*   - math.radians rounds, by less than two units in the last place of the
\*     latitude; within four of a right angle (D counts them below, h above
\*     exponent UlpExp - 2) the side the radians fall on is open;
\*   - where the latitude is 270 modulo 360 (C: at 270 for a positive, at 90 for
\*     the absolute value of a negative one), tan and 1 / cos cancel, and within
\*     2^-DegBits degree the sum can be 0.0 or negative on either side;
\*   - from exponent WideExp on, four units in the last place exceed 90 degrees.
\* There the two tables above decide, for the latitudes they hold.
WideExp == 57

LatProjects(lat) ==
    LET e    == lat.e
        a    == BitsMod(lat.m, 1, e + DegBits + 1, Deg(360))
        R    == Deg(IF lat.neg THEN 270 ELSE 90)
        C    == Deg(IF lat.neg THEN 90 ELSE 270)
        h    == IF e <= UlpExp - 2 THEN 1 ELSE Pow2(e - (UlpExp - 2))
        rest == BitsMod(lat.m, e + DegBits + 2, MantBits, Pow2(30))
        D    == IF a = R THEN rest ELSE rest - Pow2(UlpExp - e)
        near == \/ e >= WideExp
                \/ C - h <= a /\ a < C + h
                \/ e > UlpExp - 2 /\ R - h <= a /\ a < R + h
                \/ e <= UlpExp - 2 /\ a - R \in {-1, 0} /\ D \in -4..4
    IN  CASE lat = Zero -> TRUE
          [] lat # Zero /\ ~near -> a < Deg(90) \/ a >= Deg(270)
          [] lat # Zero /\ near /\ lat \in ZoneReturns -> TRUE
          [] lat # Zero /\ near /\ lat \in ZoneRaises -> FALSE

\* lines 40-44 and 65 of a call at this zoom
Projects(lat, lon, zoom) ==
    /\ IsFinite(lat) /\ IsFinite(lon)
    /\ ~LonOverflows(lon, zoom)
    /\ LatProjects(lat)

\* Lines 44 and 77 for the centres of the model.  A row is the latitude, LatWorldPx
\* and mpp at MaxZoom; mpp is a float, given by its sign, the exponent e of its
\* leading bit and its MantBits bits as hi * 2^HalfBits + lo.

PlainCentres ==
    {<<FloatLit(Q(129715987, 10000000)), 124461701, [neg |-> FALSE, e |-> -3, hi |-> 39052360, lo |-> 62665039]>>,
     <<FloatLit(Q(125, 10)), 124822221, [neg |-> FALSE, e |-> -3, hi |-> 39125078, lo |-> 104071752]>>,
     <<FloatLit(Q(-15, 10)), 135336336, [neg |-> FALSE, e |-> -3, hi |-> 40061283, lo |-> 131299326]>>,
     <<FloatLit(QI(0)), 134217728, [neg |-> FALSE, e |-> -3, hi |-> 40075016, lo |-> 92016787]>>,
     <<FloatLit(Q(123, 10)), 124974914, [neg |-> FALSE, e |-> -3, hi |-> 39155117, lo |-> 93692538]>>,
     <<FloatLit(QI(10)), 126723040, [neg |-> FALSE, e |-> -3, hi |-> 39466187, lo |-> 17992060]>>}

PoleRows ==
    {<<FALSE, 90, 0, -1490318017, FALSE, -57, 44205299, 18077195>>,
     <<TRUE, 89, 9999994, 904161161, FALSE, -30, 56326428, 74863027>>,
     <<TRUE, 89, 9999990, 933774370, FALSE, -29, 46938689, 128435128>>,
     <<TRUE, 89, 9999988, 933774370, FALSE, -29, 56326428, 52760377>>,
     <<TRUE, 89, 9999986, 904161161, FALSE, -29, 65714166, 31153319>>,
     <<TRUE, 89, 9999984, 933774370, FALSE, -28, 37550952, 44848149>>,
     <<TRUE, 89, 9999982, 916451753, FALSE, -28, 42244821, 34044620>>,
     <<TRUE, 89, 9999980, 904161161, FALSE, -28, 46938690, 23241092>>,
     <<TRUE, 89, 9999978, 894627837, FALSE, -28, 51632559, 12437562>>,
     <<TRUE, 89, 9999976, 894627837, FALSE, -28, 56326428, 41709051>>,
     <<TRUE, 89, 9999974, 886838544, FALSE, -28, 61020297, 30905521>>,
     <<TRUE, 89, 9999972, 886838544, FALSE, -28, 65714166, 60177010>>,
     <<TRUE, 89, 9999970, 880252791, FALSE, -27, 35204017, 91795604>>,
     <<TRUE, 89, 9999968, 880252791, FALSE, -27, 37550952, 19284975>>,
     <<TRUE, 89, 9999966, 874547952, FALSE, -27, 39897886, 80992075>>,
     <<TRUE, 89, 9999964, 874547952, FALSE, -27, 42244821, 28518955>>,
     <<TRUE, 89, 9999962, 869515927, FALSE, -27, 44591755, 90226053>>,
     <<FALSE, 270, 2, 844934743, FALSE, -31, 37550949, 50993163>>,
     <<FALSE, 270, 10, 904161161, FALSE, -29, 46938688, 94092224>>,
     <<FALSE, 270, 12, 933774370, FALSE, -29, 56326426, 72485168>>,
     <<FALSE, 270, 14, 933774370, FALSE, -29, 65714164, 50878112>>,
     <<FALSE, 270, 16, 904161161, FALSE, -28, 37550952, 40717866>>,
     <<FALSE, 270, 18, 894627837, FALSE, -28, 42244821, 29914337>>,
     <<FALSE, 270, 20, 904161161, FALSE, -28, 46938690, 19110809>>,
     <<FALSE, 270, 22, 894627837, FALSE, -28, 51632559, 8307280>>,
     <<FALSE, 270, 24, 886838544, FALSE, -28, 56326429, 23586090>>,
     <<FALSE, 270, 26, 886838544, FALSE, -28, 61020298, 12782561>>,
     <<FALSE, 270, 28, 886838544, FALSE, -28, 65714165, 110114422>>,
     <<FALSE, 270, 30, 886838544, FALSE, -27, 35204017, 49655446>>,
     <<FALSE, 270, 32, 880252791, FALSE, -27, 37550951, 111362546>>,
     <<FALSE, 270, 34, 874547952, FALSE, -27, 39897886, 119001950>>,
     <<FALSE, 270, 36, 871957896, FALSE, -27, 42244821, 46491321>>,
     <<FALSE, 270, 38, 869515927, FALSE, -27, 44591755, 108198421>>,
     <<FALSE, 450, 0, -1421558275, FALSE, -55, 55256623, 123259791>>,
     <<TRUE, 449, 9999988, 904161161, FALSE, -29, 56326427, 115088636>>,
     <<TRUE, 449, 9999986, 904161161, FALSE, -29, 65714165, 93481580>>,
     <<TRUE, 449, 9999984, 933774370, FALSE, -28, 37550952, 129128464>>,
     <<TRUE, 449, 9999982, 904161161, FALSE, -28, 42244821, 118324936>>,
     <<TRUE, 449, 9999980, 894627837, FALSE, -28, 46938690, 107521407>>,
     <<TRUE, 449, 9999978, 894627837, FALSE, -28, 51632558, 70635541>>,
     <<TRUE, 449, 9999976, 886838544, FALSE, -28, 56326428, 85914349>>,
     <<TRUE, 449, 9999974, 894627837, FALSE, -28, 61020297, 75110822>>,
     <<TRUE, 449, 9999972, 880252791, FALSE, -28, 65714166, 64307292>>,
     <<TRUE, 449, 9999970, 880252791, FALSE, -27, 35204017, 93860745>>,
     <<TRUE, 449, 9999968, 880252791, FALSE, -27, 37550952, 21350117>>,
     <<TRUE, 449, 9999966, 874547952, FALSE, -27, 39897887, 28989522>>,
     <<TRUE, 449, 9999964, 871957896, FALSE, -27, 42244821, 90696621>>,
     <<TRUE, 449, 9999962, 867206022, FALSE, -27, 44591755, 72253686>>,
     <<FALSE, 630, 2, 844934743, FALSE, -31, 37550965, 114668190>>,
     <<FALSE, 630, 6, 904161161, FALSE, -30, 56326424, 97791479>>,
     <<FALSE, 630, 10, 904161161, FALSE, -29, 46938688, 5681626>>,
     <<FALSE, 630, 12, 933774370, FALSE, -29, 56326430, 88403925>>,
     <<FALSE, 630, 14, 933774370, FALSE, -29, 65714163, 96685241>>,
     <<FALSE, 630, 16, 933774370, FALSE, -28, 37550953, 22594906>>,
     <<FALSE, 630, 18, 904161161, FALSE, -28, 42244819, 93844427>>,
     <<FALSE, 630, 20, 894627837, FALSE, -28, 46938691, 987849>>,
     <<FALSE, 630, 22, 886838544, FALSE, -28, 51632559, 124402047>>,
     <<FALSE, 630, 24, 886838544, FALSE, -28, 56326426, 61433841>>,
     <<FALSE, 630, 26, 886838544, FALSE, -28, 61020297, 102794989>>,
     <<FALSE, 630, 28, 886838544, FALSE, -28, 65714164, 39826783>>,
     <<FALSE, 630, 30, 880252791, FALSE, -27, 35204017, 107702830>>,
     <<FALSE, 630, 32, 874547952, FALSE, -27, 37550952, 35192201>>,
     <<FALSE, 630, 34, 874547952, FALSE, -27, 39897886, 96899301>>,
     <<FALSE, 630, 36, 871957896, FALSE, -27, 42244821, 24388672>>,
     <<FALSE, 630, 38, 871957896, FALSE, -27, 44591754, 60013433>>}

CentreRows ==
    PlainCentres \cup
    {<<Deg7(t[1], t[2], t[3]), t[4], [neg |-> t[5], e |-> t[6], hi |-> t[7], lo |-> t[8]]>> :
        t \in PoleRows}

CentreRow(lat) == CHOOSE r \in CentreRows : r[1] = lat

LatWorldPx(lat) == CentreRow(lat)[2]

Mpp19(lat) == CentreRow(lat)[3]

\* lines 40-45: the tile coordinates, in pixels of tile_px per tile, rounded down
latlon_to_tile_xy(lat, lon, zoom) ==
    <<LonWorldPx(lon) \div Pow2(MaxZoom - zoom), LatWorldPx(lat) \div Pow2(MaxZoom - zoom)>>

\* line 65
TileOf(t) == <<t[1] \div tile_px, t[2] \div tile_px>>

CenterTile(lat, lon, zoom) == TileOf(latlon_to_tile_xy(lat, lon, zoom))

\* lines 73-74
PxInCanvas(t) ==
    <<tiles_radius * tile_px + (t[1] % tile_px), tiles_radius * tile_px + (t[2] % tile_px)>>

center_px(lat, lon, zoom) == PxInCanvas(latlon_to_tile_xy(lat, lon, zoom))

\* Line 78, radius_m / mpp: the long division of radius_m by the bits of mpp.
\* The quotient rounded to a float, ties to even: its leading bit came at step
\* k - MantBits and weighs 2^(MantBits - 1 - d.e) there
RoundQuotient(st, d) ==
    RoundBits(2 * MantBits - 1 - d.e - st.k, SubSeq(st.q, 1, MantBits), st.q[MantBits + 1],
              st.hi # 0 \/ st.lo # 0)

\* radius_m / mpp for 0 < radius_m < 2^(2 * HalfBits - 1) and mpp > 0
FloatQuotient(radius_m, d) ==
    RoundQuotient(DivRun([hi |-> radius_m \div Pow2(HalfBits), lo |-> radius_m % Pow2(HalfBits),
                          q |-> << >>, k |-> 0], d, 2, Radix), d)

\* the decimal digits of twice a number and of the number of the first n bits of m
\* (zeros after its last)
TwiceInt(ds) ==
    LET t == TwiceDigits(<<0>> \o ds)
    IN  SubSeq(t, IF t[1] = 0 THEN 2 ELSE 1, Len(t))

\* one bit more of m, of those of the number of digits st.ds
IntStep(st, m) ==
    LET t == TwiceInt(st.ds)
    IN  [ds |-> [t EXCEPT ![Len(t)] = @ + (IF st.i < Len(m) THEN m[st.i + 1] ELSE 0)],
         i  |-> st.i + 1]

\* IntStep until n bits are in, at most k * Radix^lvl times
RECURSIVE IntRun(_, _, _, _, _)
IntRun(st, m, n, lvl, k) ==
    IF k = 0 \/ st.i >= n THEN st
    ELSE IntRun(IF lvl = 0 THEN IntStep(st, m) ELSE IntRun(st, m, n, lvl - 1, Radix),
                m, n, lvl, k - 1)

IntDigits(m, n) == IntRun([ds |-> <<0>>, i |-> 0], m, n, 2, Radix).ds

\* Line 78, max(3, int(f / 2^s)) for a float f > 0: a number of the model if it has
\* up to IntBits bits, the sequence of its decimal digits if it has more
IntBits == 30

SmallInt(f, s) ==
    IF f.e - s < 0 THEN 0 ELSE BitsMod(f.m, 1, f.e - s + 1, Pow2(IntBits))

AtLeast3(r) == IF r > 3 THEN r ELSE 3

RadiusInt(f, s) ==
    IF f.e - s < IntBits THEN AtLeast3(SmallInt(f, s)) ELSE IntDigits(f.m, f.e - s + 1)

\* lines 76-78: max(3, int(radius_m / mpp)); mpp of a zoom is mpp at MaxZoom times
\* 2^(MaxZoom - zoom), and so is the quotient that much less, without a rounding
RadiusOf(d, zoom, radius_m) ==
    IF radius_m = 0 \/ d.neg # (radius_m < 0) THEN 3
    ELSE RadiusInt(FloatQuotient(IF radius_m < 0 THEN -radius_m ELSE radius_m, d),
                   MaxZoom - zoom)

radius_px(lat, zoom, radius_m) == RadiusOf(Mpp19(lat), zoom, radius_m)

\* line 60: the grey placeholder tile
PlaceholderTile == [src |-> "placeholder", z |-> 0, x |-> 0, y |-> 0, size |-> tile_px]

\* line 57: the tile the server sent
OsmTile(z, x, y) == [src |-> "osm", z |-> z, x |-> x, y |-> y, size |-> tile_px]

BlankTile == [src |-> "blank", z |-> 0, x |-> 0, y |-> 0, size |-> tile_px]

\* lines 47-60: the tile of the answer, or the placeholder when the request fails
fetch_tile_image(z, x, y, ok) == IF ok THEN OsmTile(z, x, y) ELSE PlaceholderTile

\* line 68: the empty canvas, by paste offset
PasteOffsets == {<<c * tile_px, r * tile_px>> : c \in 0..(cols - 1), r \in 0..(cols - 1)}

BlankCanvas == [o \in PasteOffsets |-> BlankTile]

\* mutant of LoopDx: the last column of a row asks for the middle column again
LoopDx_repeat(k) == IF k % cols = cols - 1 THEN 0 ELSE (k % cols) - tiles_radius

\* lines 69-70: the k-th iteration (k from 0) of the nested loops, dy outside
LoopDx(k) == (k % cols) - tiles_radius
LoopDy(k) == (k \div cols) - tiles_radius

\* mutant of PasteAt: column and row exchanged
PasteAt_swapped(dx, dy) == <<(dy + tiles_radius) * tile_px, (dx + tiles_radius) * tile_px>>

\* line 72: where the tile of (dx, dy) is pasted
PasteAt(dx, dy) == <<(dx + tiles_radius) * tile_px, (dy + tiles_radius) * tile_px>>

NoComp == [which |-> "", lat |-> Zero, lon |-> Zero, zoom |-> 0, radius_m |-> 0,
           x_center |-> 0, y_center |-> 0, k |-> 0, stitched |-> BlankCanvas]

NoImg == [size |-> <<0, 0>>, tiles |-> BlankCanvas, circle |-> <<0, 0, 0>>, dot |-> <<0, 0>>]

\* lines 64-68: the frame of a call
ComposeAround(c, which, lat, lon, zoom, radius_m) ==
    [which |-> which, lat |-> lat, lon |-> lon, zoom |-> zoom, radius_m |-> radius_m,
     x_center |-> c[1], y_center |-> c[2], k |-> 0, stitched |-> BlankCanvas]

BeginCompose(which, lat, lon, zoom, radius_m) ==
    ComposeAround(CenterTile(lat, lon, zoom), which, lat, lon, zoom, radius_m)

\* lines 73-83: the circle and the dot drawn on the stitched canvas
DrawnAt(p, c) ==
    [size   |-> <<cols * tile_px, cols * tile_px>>,
     tiles  |-> c.stitched,
     circle |-> <<p[1], p[2], radius_px(c.lat, c.zoom, c.radius_m)>>,
     dot    |-> p]

FinishCompose(c) == DrawnAt(center_px(c.lat, c.lon, c.zoom), c)

\* how the tile server may answer one request
TileOutcomes(n) ==
    CASE n = "up"   -> {TRUE}
      [] n = "down" -> {FALSE}
      [] OTHER      -> BOOLEAN

-----------------------------------------------------------------------------
(* Temporary files (lines 290-292, 317-319, 474-484).                      *)

\* tempfile.NamedTemporaryFile(delete=False, suffix=".png"): a new name tmp*.png;
\* the name is unique to the call that creates it
TmpName(r, which) == <<"tmp", ToString(r), which, ".png">>

\* line 476
IsTmpPng(path) == path[Len(path)] = ".png" /\ path[1] = "tmp"

-----------------------------------------------------------------------------
(* The script as a state machine.  Streamlit runs it from the top on every *)
(* interaction; the part under `if st.button(...)` runs when the button    *)
(* was pressed.                                                            *)

env == <<bad, net, locked>>
session == <<form, run, prev>>
centreVars == <<data, picked_latlon, adlr_zoom, adlr_buffer_m>>
tileVars == <<comp, img, calls, requests, answers>>
fileVars == <<tmp_files, tmpdir>>
resultVars == <<outputs, downloads>>

\* what the geocoding service may answer (line 135-138)
GeoReplies ==
    { [kind |-> "error", lat |-> << >>, lon |-> << >>],
      [kind |-> "empty", lat |-> << >>, lon |-> << >>],
      [kind |-> "malformed", lat |-> << >>, lon |-> << >>],
      [kind |-> "hit", lat |-> <<"1", "2", ".", "3">>,
       lon |-> <<"7", ".", "6", "6", "e", "1">>] }

NoReply == [kind |-> "none", lat |-> << >>, lon |-> << >>]

\* lines 125-126, 133: a non-blank text without a comma goes to the geocoder
AsksGeocoder(kp_center_txt) == Strip(kp_center_txt) # << >> /\ ~HasComma(kp_center_txt)

\* lines 123-145
ResolveCentre ==
    /\ pc = "resolve"
    /\ \E reply \in GeoReplies :
          /\ picked_latlon' = ResolveCentreOf(form.kp_center_txt, reply)
          /\ data' = IF AsksGeocoder(form.kp_center_txt) THEN reply ELSE NoReply
    /\ pc' = "settings"
    /\ UNCHANGED <<adlr_zoom, adlr_buffer_m, lay, side_idx, msp, warnings>>
    /\ UNCHANGED <<env, session, tileVars, fileVars, resultVars>>

\* lines 147-149
AdlrSettings ==
    /\ pc = "settings"
    /\ adlr_zoom' = AdlrZoomOf(form.kp_zoom)
    /\ adlr_buffer_m' = AdlrBufferM
    /\ pc' = "idle"
    /\ UNCHANGED <<data, picked_latlon, lay, side_idx, msp, warnings>>
    /\ UNCHANGED <<env, session, tileVars, fileVars, resultVars>>

\* lines 152-197: the button is pressed; a new document, the layout values
Generate ==
    /\ pc = "idle"
    /\ lay' = ComputeLayout(form.site_width_m, form.site_length_m)
    /\ msp' = << >>
    /\ pc' = "borders"
    /\ UNCHANGED <<side_idx, warnings>>
    /\ UNCHANGED <<env, session, centreVars, tileVars, fileVars, resultVars>>

\* One section of emission: its primitives are appended in order; an exception
\* that nothing catches ends the script run.
EmitSection(cmds, next) ==
    LET r == Emit(cmds, bad)
    IN  /\ msp' = msp \o r.out
        /\ warnings' = warnings \o r.warn
        /\ pc' = IF r.raised THEN "aborted" ELSE next

\* lines 199-217
EmitBorders ==
    /\ pc = "borders"
    /\ EmitSection(BorderCmds, "site")
    /\ UNCHANGED <<lay, side_idx>>
    /\ UNCHANGED <<env, session, centreVars, tileVars, fileVars, resultVars>>

\* lines 219-226
EmitSite ==
    /\ pc = "site"
    /\ EmitSection(SiteCmds(lay), "roads")
    /\ side_idx' = 1
    /\ UNCHANGED lay
    /\ UNCHANGED <<env, session, centreVars, tileVars, fileVars, resultVars>>

\* lines 229-267: one iteration of `for side, info in road_info.items()`
EmitRoad ==
    /\ pc = "roads"
    /\ side_idx <= Len(Sides)
    /\ EmitSection(RoadCmds(Sides[side_idx], form.road_info[Sides[side_idx]], lay),
                   IF side_idx = Len(Sides) THEN "site_title" ELSE "roads")
    /\ side_idx' = side_idx + 1
    /\ UNCHANGED lay
    /\ UNCHANGED <<env, session, centreVars, tileVars, fileVars, resultVars>>

\* line 270
EmitSiteTitle ==
    /\ pc = "site_title"
    /\ EmitSection(SiteTitleCmds(form, lay), "key_box")
    /\ UNCHANGED <<lay, side_idx>>
    /\ UNCHANGED <<env, session, centreVars, tileVars, fileVars, resultVars>>

\* lines 273-284
EmitKeyBox ==
    /\ pc = "key_box"
    /\ EmitSection(KeyBoxCmds, "key_call")
    /\ tmp_files' = << >>
    /\ UNCHANGED <<lay, side_idx, tmpdir>>
    /\ UNCHANGED <<env, session, centreVars, tileVars, resultVars>>

\* lines 286 / 313 with 64-68: make_keyplan_image is called.  Where line 64 or 65
\* raises, no tile is requested and no file is written: the except branch of the
\* caller (lines 300-301, 322-323) adds the text that stands for the image.
MakeKeyplanImage ==
    /\ pc \in {"key_call", "adlr_call"}
    /\ LET key      == pc = "key_call"
           which    == IF key THEN "key" ELSE "adlr"
           zoom     == IF key THEN form.kp_zoom ELSE adlr_zoom
           radius_m == IF key THEN form.kp_radius_m ELSE adlr_buffer_m
           f        == Emit(IF key THEN KeyFallbackCmds ELSE AdlrFallbackCmds, bad)
       IN  /\ calls' = Append(calls, [which |-> which, lat |-> picked_latlon.lat,
                                      lon |-> picked_latlon.lon, zoom |-> zoom,
                                      radius_m |-> radius_m])
           /\ IF Projects(picked_latlon.lat, picked_latlon.lon, zoom)
              THEN /\ comp' = BeginCompose(which, picked_latlon.lat, picked_latlon.lon,
                                           zoom, radius_m)
                   /\ pc' = IF key THEN "key_tiles" ELSE "adlr_tiles"
                   /\ UNCHANGED <<msp, warnings>>
              ELSE /\ comp' = comp
                   /\ msp' = msp \o f.out
                   /\ warnings' = warnings \o f.warn
                   /\ pc' = IF key THEN "adlr_box" ELSE "land_use"
    /\ UNCHANGED <<lay, side_idx, img, requests, answers>>
    /\ UNCHANGED <<env, session, centreVars, fileVars, resultVars>>

\* lines 69-72: one iteration of the tile loops
FetchTile ==
    /\ pc \in {"key_tiles", "adlr_tiles"}
    /\ comp.k < cols * cols
    /\ LET dx == LoopDx(comp.k)
           dy == LoopDy(comp.k)
           x  == comp.x_center + dx
           y  == comp.y_center + dy
       IN  \E ok \in TileOutcomes(net) :
              /\ comp' = [comp EXCEPT
                            !.stitched[PasteAt(dx, dy)] =
                                fetch_tile_image(comp.zoom, x, y, ok),
                            !.k = @ + 1]
              /\ requests' = Append(requests, [which |-> comp.which, z |-> comp.zoom,
                                               x |-> x, y |-> y])
              /\ answers' = Append(answers, ok)
    /\ UNCHANGED <<pc, lay, side_idx, msp, warnings, img, calls>>
    /\ UNCHANGED <<env, session, centreVars, fileVars, resultVars>>

\* lines 73-83: the overlay is drawn and the call returns
DrawBuffer ==
    /\ pc \in {"key_tiles", "adlr_tiles"}
    /\ comp.k = cols * cols
    /\ img' = FinishCompose(comp)
    /\ comp' = NoComp
    /\ pc' = IF pc = "key_tiles" THEN "key_insert" ELSE "adlr_insert"
    /\ UNCHANGED <<lay, side_idx, msp, warnings, calls, requests, answers>>
    /\ UNCHANGED <<env, session, centreVars, fileVars, resultVars>>

\* The rest of a try block after the image was composed: the resized image is
\* saved under a new temporary name, which is recorded, then the primitives are
\* added; an exception among them is caught and the fallback text is added.
InsertImage(path, cmds, fallback, next) ==
    LET r == Emit(cmds, bad)
        f == Emit(fallback, bad)
    IN  /\ tmpdir' = tmpdir \cup {path}
        /\ tmp_files' = Append(tmp_files, path)
        /\ msp' = msp \o r.out \o (IF r.raised THEN f.out ELSE << >>)
        /\ warnings' = warnings \o r.warn \o (IF r.raised THEN f.warn ELSE << >>)
        /\ img' = NoImg
        /\ answers' = << >>
        /\ pc' = next

\* lines 287-301
InsertKeyImage ==
    /\ pc = "key_insert"
    /\ InsertImage(TmpName(run, "key"), KeyImageCmds(TmpName(run, "key")),
                   KeyFallbackCmds, "adlr_box")
    /\ UNCHANGED <<lay, side_idx, comp, calls, requests>>
    /\ UNCHANGED <<env, session, centreVars, resultVars>>

\* lines 304-311
EmitAdlrBox ==
    /\ pc = "adlr_box"
    /\ EmitSection(AdlrBoxCmds, "adlr_call")
    /\ UNCHANGED <<lay, side_idx>>
    /\ UNCHANGED <<env, session, centreVars, tileVars, fileVars, resultVars>>

\* lines 314-323
InsertAdlrImage ==
    /\ pc = "adlr_insert"
    /\ InsertImage(TmpName(run, "adlr"), AdlrImageCmds(TmpName(run, "adlr")),
                   AdlrFallbackCmds, "land_use")
    /\ UNCHANGED <<lay, side_idx, comp, calls, requests>>
    /\ UNCHANGED <<env, session, centreVars, resultVars>>

\* lines 325-353
EmitLandUse ==
    /\ pc = "land_use"
    /\ EmitSection(LandUseCmds(form), "conditions")
    /\ UNCHANGED <<lay, side_idx>>
    /\ UNCHANGED <<env, session, centreVars, tileVars, fileVars, resultVars>>

\* lines 355-384
EmitGeneralConditions ==
    /\ pc = "conditions"
    /\ EmitSection(GeneralConditionsCmds(bad), "notes")
    /\ UNCHANGED <<lay, side_idx>>
    /\ UNCHANGED <<env, session, centreVars, tileVars, fileVars, resultVars>>

\* lines 386-401
EmitNotes ==
    /\ pc = "notes"
    /\ EmitSection(NotesCmds(bad), "title_block")
    /\ UNCHANGED <<lay, side_idx>>
    /\ UNCHANGED <<env, session, centreVars, tileVars, fileVars, resultVars>>

\* lines 403-434
EmitTitleBlock ==
    /\ pc = "title_block"
    /\ EmitSection(TitleBlockCmds(form), "signatures")
    /\ UNCHANGED <<lay, side_idx>>
    /\ UNCHANGED <<env, session, centreVars, tileVars, fileVars, resultVars>>

\* lines 436-448
EmitSignatureBoxes ==
    /\ pc = "signatures"
    /\ EmitSection(SignatureCmds, "save_dxf")
    /\ UNCHANGED <<lay, side_idx>>
    /\ UNCHANGED <<env, session, centreVars, tileVars, fileVars, resultVars>>

\* the library calls of the two output steps, which may raise like any other
DocWriteId == <<"doc.write", "", 0>>
SavefigId == <<"fig.savefig", "", 0>>

\* lines 450-453: doc.write(dxf_buf) is a direct call; if it raises, the script
\* run ends there
SaveDxf ==
    /\ pc = "save_dxf"
    /\ outputs' = IF DocWriteId \in bad THEN outputs ELSE outputs \cup {"dxf_buf"}
    /\ pc' = IF DocWriteId \in bad THEN "aborted" ELSE "render_pdf"
    /\ UNCHANGED <<lay, side_idx, msp, warnings, downloads>>
    /\ UNCHANGED <<env, session, centreVars, tileVars, fileVars>>

\* mutant of RenderPdf: a failed rendering is passed over
RenderPdf_swallow ==
    /\ pc = "render_pdf"
    /\ outputs' = IF SavefigId \in bad THEN outputs ELSE outputs \cup {"pdf_buf"}
    /\ pc' = "downloads"
    /\ UNCHANGED <<lay, side_idx, msp, warnings, downloads>>
    /\ UNCHANGED <<env, session, centreVars, tileVars, fileVars>>

\* lines 455-465: rendering and fig.savefig(pdf_buf) are direct calls; if one
\* raises, the script run ends there
RenderPdf ==
    /\ pc = "render_pdf"
    /\ outputs' = IF SavefigId \in bad THEN outputs ELSE outputs \cup {"pdf_buf"}
    /\ pc' = IF SavefigId \in bad THEN "aborted" ELSE "downloads"
    /\ UNCHANGED <<lay, side_idx, msp, warnings, downloads>>
    /\ UNCHANGED <<env, session, centreVars, tileVars, fileVars>>

\* lines 467-470
OfferDownloads ==
    /\ pc = "downloads"
    /\ downloads' = {"Download DXF", "Download PDF"}
    /\ pc' = "cleanup"
    /\ UNCHANGED <<lay, side_idx, msp, warnings, outputs>>
    /\ UNCHANGED <<env, session, centreVars, tileVars, fileVars>>

\* mutant of Cleanup: the first removal that fails ends the loop
Cleanup_stop_at_failure ==
    /\ pc = "cleanup"
    /\ tmpdir' = IF \E path \in tmpdir : IsTmpPng(path) /\ path \in locked
                 THEN tmpdir
                 ELSE {path \in tmpdir : ~IsTmpPng(path)}
    /\ pc' = "done"
    /\ UNCHANGED <<lay, side_idx, msp, warnings, tmp_files>>
    /\ UNCHANGED <<env, session, centreVars, tileVars, resultVars>>

\* lines 474-484: every tmp*.png of the temporary directory is removed; a file
\* os.remove fails on stays, and the failure is swallowed
Cleanup ==
    /\ pc = "cleanup"
    /\ tmpdir' = {path \in tmpdir : ~IsTmpPng(path) \/ path \in locked}
    /\ pc' = "done"
    /\ UNCHANGED <<lay, side_idx, msp, warnings, tmp_files>>
    /\ UNCHANGED <<env, session, centreVars, tileVars, resultVars>>

\* The user unticks the checkbox of one road (line 112) after a completed run and
\* the script runs again from the top.  The width widget of that side (line 114,
\* whose default depends on the checkbox) keeps its value or falls back to 0.0.
MaxReruns == 1

UntickRoad ==
    /\ pc = "done"
    /\ run < MaxReruns
    /\ \E side \in SideSet :
          /\ form.road_info[side].exists
          /\ \E w \in {form.road_info[side].width, QI(0)} :
                form' = [form EXCEPT !.road_info[side] = [exists |-> FALSE, width |-> w]]
    /\ prev' = [some |-> TRUE, form |-> form, lay |-> lay, msp |-> msp]
    /\ run' = run + 1
    /\ pc' = "resolve"
    /\ data' = NoReply
    /\ picked_latlon' = NoLatLon
    /\ adlr_zoom' = 0
    /\ adlr_buffer_m' = 0
    /\ lay' = NoLayout
    /\ side_idx' = 0
    /\ msp' = << >>
    /\ warnings' = << >>
    /\ comp' = NoComp
    /\ img' = NoImg
    /\ calls' = << >>
    /\ requests' = << >>
    /\ answers' = << >>
    /\ tmp_files' = << >>
    /\ outputs' = {}
    /\ downloads' = {}
    /\ UNCHANGED <<tmpdir, env>>

Next ==
    \/ ResolveCentre
    \/ AdlrSettings
    \/ Generate
    \/ EmitBorders
    \/ EmitSite
    \/ EmitRoad
    \/ EmitSiteTitle
    \/ EmitKeyBox
    \/ MakeKeyplanImage
    \/ FetchTile
    \/ DrawBuffer
    \/ InsertKeyImage
    \/ EmitAdlrBox
    \/ InsertAdlrImage
    \/ EmitLandUse
    \/ EmitGeneralConditions
    \/ EmitNotes
    \/ EmitTitleBlock
    \/ EmitSignatureBoxes
    \/ SaveDxf
    \/ RenderPdf
    \/ OfferDownloads
    \/ Cleanup
    \/ UntickRoad

-----------------------------------------------------------------------------
(* Initial states: the form as the user filled it, before the first run.   *)

\* the widget defaults (lines 93-121) with a survey number typed in
NoRoad == [exists |-> FALSE, width |-> QI(0)]

DefaultRoads ==
    [side \in SideSet |-> IF side = "north" THEN [exists |-> TRUE, width |-> QI(6)]
                          ELSE NoRoad]

DefaultForm ==
    [survey_no |-> "45/2", village |-> "", taluk |-> "", epid |-> "", ward_no |-> "",
     constituency |-> "", total_builtup |-> QI(0),
     site_length_m |-> QI(15), site_width_m |-> QI(12),
     road_info |-> DefaultRoads,
     kp_center_txt |-> << >>, kp_radius_m |-> 200, kp_zoom |-> 16]

\* plot sizes: the smallest the form accepts (0.1), the defaults, multiples of
\* 12.22 m and 12.85 m, which reach and pass the sizes that fill the usable extents
\* at 10 mm per metre (24.44 m wide, 25.7 m long), and the widths 24.56 m and 30 m,
\* whose drawn width is rounded above the usable width
MaxWidthSteps == 3
MaxLengthSteps == 3

PlotWidths ==
    {Q(1, 10), QI(12), Q(2456, 100), QI(30)} \cup {Q(1222 * i, 100) : i \in 1..MaxWidthSteps}

PlotLengths == {Q(1, 10), QI(15)} \cup {Q(257 * i, 20) : i \in 1..MaxLengthSteps}

RoadWidthSet == {QI(0), Q(9, 2)}

RoadConfigs == [SideSet -> [exists : BOOLEAN, width : RoadWidthSet]]

\* the state before a script run, with the files dir in the temporary directory,
\* of which the files lk cannot be removed
InitRunIn(f, dir, lk) ==
    /\ form = f
    /\ data = NoReply
    /\ picked_latlon = NoLatLon
    /\ adlr_zoom = 0
    /\ adlr_buffer_m = 0
    /\ pc = "resolve"
    /\ run = 0
    /\ lay = NoLayout
    /\ side_idx = 0
    /\ msp = << >>
    /\ warnings = << >>
    /\ comp = NoComp
    /\ img = NoImg
    /\ calls = << >>
    /\ requests = << >>
    /\ answers = << >>
    /\ tmp_files = << >>
    /\ tmpdir = dir
    /\ outputs = {}
    /\ downloads = {}
    /\ locked = lk
    /\ prev = [some |-> FALSE, form |-> f, lay |-> NoLayout, msp |-> << >>]

\* an empty temporary directory
InitRun(f) == InitRunIn(f, {}, {})

\* plots of every size, the tile server and the document library working
Init ==
    /\ \E w \in PlotWidths, l \in PlotLengths :
          InitRun([DefaultForm EXCEPT !.site_width_m = w, !.site_length_m = l])
    /\ bad = {}
    /\ net = "up"

Spec == Init /\ [][Next]_vars

\* roads of every configuration around a plot that fits and one that does not
InitRoads ==
    /\ \E d \in {<<QI(12), QI(15)>>, <<Q(366, 10), Q(771, 20)>>}, r \in RoadConfigs :
          InitRun([DefaultForm EXCEPT !.site_width_m = d[1], !.site_length_m = d[2],
                                      !.road_info = r])
    /\ bad = {}
    /\ net = "up"

SpecRoads == InitRoads /\ [][Next]_vars

\* the call sites that add a primitive for form f, fallbacks included
AllIds(f) ==
    LET all == BorderCmds \o SiteCmds(NoLayout)
               \o RoadCmds("north", f.road_info["north"], NoLayout)
               \o RoadCmds("south", f.road_info["south"], NoLayout)
               \o RoadCmds("east", f.road_info["east"], NoLayout)
               \o RoadCmds("west", f.road_info["west"], NoLayout)
               \o SiteTitleCmds(f, NoLayout) \o KeyBoxCmds \o KeyImageCmds(<< >>)
               \o KeyFallbackCmds \o AdlrBoxCmds \o AdlrImageCmds(<< >>)
               \o AdlrFallbackCmds \o LandUseCmds(f)
               \o GeneralConditionsCmds({}) \o NotesCmds({})
               \o GeneralConditionsCmds({<<"general_conditions", "", 0>>})
               \o NotesCmds({<<"notes", "", 0>>})
               \o TitleBlockCmds(f) \o SignatureCmds
    IN  {all[i].prim.id : i \in DOMAIN all}

\* the sets of at most k primitives the document library may reject
MaxRejects == 1

RECURSIVE RejectSets(_, _)
RejectSets(ids, k) ==
    IF k = 0 THEN {{}}
    ELSE LET less == RejectSets(ids, k - 1)
         IN  less \cup {S \cup {a} : S \in less, a \in ids}

\* the default form; the document library rejects up to MaxRejects primitives
InitFault ==
    /\ InitRun(DefaultForm)
    /\ bad \in RejectSets(AllIds(DefaultForm), MaxRejects)
    /\ net = "up"

SpecFault == InitFault /\ [][Next]_vars

\* the default form; every tile request may fail or succeed
InitNet ==
    /\ InitRun(DefaultForm)
    /\ bad = {}
    /\ net \in {"flaky", "down"}

SpecNet == InitNet /\ [][Next]_vars

\* files other programs and other sessions left in the temporary directory
OtherTmpPng == <<"tmp", "scan", ".png">>
OtherSessionPng == <<"tmp", "9", "key", ".png">>
OtherPng == <<"photo", ".png">>
OtherTmpCsv == <<"tmp", "data", ".csv">>
ForeignFiles == {OtherTmpPng, OtherSessionPng, OtherPng, OtherTmpCsv}

\* files whose removal may fail (still open, or not this user's)
Lockable == {TmpName(0, "key"), TmpName(1, "adlr"), OtherTmpPng}

\* what may raise in a run: nothing, the table border, doc.write, fig.savefig
IoFaults == {{}, {<<"lut_border", "", 0>>}, {DocWriteId}, {SavefigId}}

\* the default form; a temporary directory with other files in it, removals that
\* may fail, and output steps that may raise
InitFiles ==
    /\ \E dir \in SUBSET ForeignFiles, lk \in SUBSET Lockable :
          InitRunIn(DefaultForm, dir, lk)
    /\ bad \in IoFaults
    /\ net = "up"

SpecFiles == InitFiles /\ [][Next]_vars

\* texts typed into the key-plan centre field
TxtEmpty == << >>
TxtBlank == <<" ", " ">>
TxtPair == <<"1", "2", ".", "5", ",", "7", "7", ".", "5">>
TxtPairSpaced == <<" ", "1", "2", ".", "5", " ", ",", " ", "7", "7", ".", "5", " ">>
TxtNegative == <<"-", "1", ".", "5", ",", ".", "5">>
TxtZero == <<"0", ",", "0">>
TxtHalf == <<"1", "2", ".", "5", ",">>
TxtLetters == <<"a", ",", "b">>
TxtThree == <<"0", ",", "0", ",", "0">>
TxtInnerBlank == <<"1", " ", "2", ",", "0">>
TxtAddress == <<"M", "y", "s", "u", "r", "u">>
TxtTabs == <<"\t", "\n">>
TxtPairTabs == <<"\t", "1", "2", ".", "5", ",", "\t", "7", "7", ".", "5", "\n">>
TxtExp == <<"1", "e", "1", ",", "7", "_", "0">>
TxtNaN == <<"n", "a", "n", ",", "0">>
TxtPole == <<"9", "5", ",", "0">>
TxtSouthPole == <<"-", "8", "9", ".", "9", "9", "9", "9", "9", "9", "8", ",", "0">>
TxtFarEast == <<"0", ",", "1", "e", "3", "0", "8">>
TxtRightAngle == <<"4", "5", "0", ",", "0">>
TxtLong == <<"1", "2", ".", "9", "7", "1", "5", "9", "8", "7", "0", "0", ",",
             "7", "7", ".", "5", "9", "4", "5", "6", "2", "7">>
TxtWideBlank == <<"U+1680", "U+2003">>
TxtPairWide == <<"U+1680", "U+0661", "U+0662", ".", "5", "U+3000", ",",
                 "U+06F7", "7", ".", "U+17E5">>

CentreTexts == {TxtEmpty, TxtBlank, TxtPair, TxtPairSpaced, TxtNegative, TxtZero, TxtHalf,
                TxtLetters, TxtThree, TxtInnerBlank, TxtAddress, TxtTabs, TxtPairTabs,
                TxtExp, TxtNaN, TxtPole, TxtSouthPole, TxtFarEast, TxtLong, TxtWideBlank,
                TxtPairWide, TxtRightAngle}

\* a long text: 0. and 100000 zeros, then 125e100002, which is 12.5
TxtDeep ==
    LET tail == <<"1", "2", "5", "e", "1", "0", "0", "0", "0", "2">>
    IN  SubSeq([i \in 1..100012 |-> IF i = 1 THEN "0" ELSE IF i = 2 THEN "."
                                     ELSE IF i <= 100002 THEN "0" ELSE tail[i - 100002]],
               1, 100012)

\* Texts of one number, with what float() makes of each after strip(): spellings of
\* 12.5 and of other numbers, with signs, exponents, underscores, digits of other
\* scripts, exponents beyond every float, infinities and nan, and texts outside the
\* number syntax.  A row is <<text, [ok, v]>>, ok = FALSE if float() raises.
LatSpellings ==
    {<<<<"1", "2", ".", "5">>, [ok |-> TRUE, v |-> FloatLit(Q(25, 2))]>>,
     <<<<"+", "1", "2", ".", "5">>, [ok |-> TRUE, v |-> FloatLit(Q(25, 2))]>>,
     <<<<"1", ".", "2", "5", "e", "1">>, [ok |-> TRUE, v |-> FloatLit(Q(25, 2))]>>,
     <<<<"1", ".", "2", "5", "E", "+", "0", "1">>, [ok |-> TRUE, v |-> FloatLit(Q(25, 2))]>>,
     <<<<"1", "2", "5", "e", "-", "1">>, [ok |-> TRUE, v |-> FloatLit(Q(25, 2))]>>,
     <<<<".", "1", "2", "5", "e", "2">>, [ok |-> TRUE, v |-> FloatLit(Q(25, 2))]>>,
     <<<<"1", "2", "5", ".", "e", "-", "1">>, [ok |-> TRUE, v |-> FloatLit(Q(25, 2))]>>,
     <<<<"1", "_", "2", ".", "5">>, [ok |-> TRUE, v |-> FloatLit(Q(25, 2))]>>,
     <<<<"1", "2", ".", "5", "_", "0">>, [ok |-> TRUE, v |-> FloatLit(Q(25, 2))]>>,
     <<<<"0", "1", "2", ".", "5", "0">>, [ok |-> TRUE, v |-> FloatLit(Q(25, 2))]>>,
     <<<<"0", ".", "0", "1", "2", "5", "e", "0", "0", "0", "0", "0", "0", "0", "0", "0", "3">>, [ok |-> TRUE, v |-> FloatLit(Q(25, 2))]>>,
     <<<<"U+FF11", "U+FF12", ".", "U+FF15">>, [ok |-> TRUE, v |-> FloatLit(Q(25, 2))]>>,
     <<<<"1", "2", "5", "0", "e", "-", "0", "_", "2">>, [ok |-> TRUE, v |-> FloatLit(Q(25, 2))]>>,
     <<<<"-", "1", ".", "5">>, [ok |-> TRUE, v |-> FloatLit(Q(-3, 2))]>>,
     <<<<"-", "0", ".", "0">>, [ok |-> TRUE, v |-> Zero]>>,
     <<<<"1", "e", "1">>, [ok |-> TRUE, v |-> FloatLit(QI(10))]>>,
     <<<<"1", "2", "3", "e", "-", "1">>, [ok |-> TRUE, v |-> FloatLit(Q(123, 10))]>>,
     <<<<"0", "e", "9", "9", "9", "9", "9", "9", "9", "9", "9", "9", "9">>, [ok |-> TRUE, v |-> Zero]>>,
     <<<<"1", "e", "-", "9", "9", "9", "9", "9", "9", "9", "9", "9", "9", "9">>, [ok |-> TRUE, v |-> Zero]>>,
     <<<<"-", "1", "e", "-", "4", "0", "0">>, [ok |-> TRUE, v |-> Zero]>>,
     <<<<"1", "e", "9", "9", "9", "9", "9", "9", "9", "9", "9", "9", "9">>, [ok |-> TRUE, v |-> Inf]>>,
     <<<<"-", "1", "E", "4", "0", "0">>, [ok |-> TRUE, v |-> NegInf]>>,
     <<<<"-", "i", "n", "f">>, [ok |-> TRUE, v |-> NegInf]>>,
     <<<<"I", "n", "f", "i", "n", "i", "t", "y">>, [ok |-> TRUE, v |-> Inf]>>,
     <<<<"+", "N", "a", "N">>, [ok |-> TRUE, v |-> NaN]>>,
     <<<<"n", "a", "n">>, [ok |-> TRUE, v |-> NaN]>>,
     <<<< >>, NoFloat>>,
     <<<<"e", "1">>, NoFloat>>,
     <<<<"1", "e">>, NoFloat>>,
     <<<<"1", "e", "+">>, NoFloat>>,
     <<<<".">>, NoFloat>>,
     <<<<"+">>, NoFloat>>,
     <<<<"-", "-", "1">>, NoFloat>>,
     <<<<"1", "_", "_", "2">>, NoFloat>>,
     <<<<"_", "1">>, NoFloat>>,
     <<<<"1", "_">>, NoFloat>>,
     <<<<"1", "_", ".", "5">>, NoFloat>>,
     <<<<"1", ".", "_", "5">>, NoFloat>>,
     <<<<"1", "e", "_", "1">>, NoFloat>>,
     <<<<"1", "_", "e", "1">>, NoFloat>>,
     <<<<"1", " ", "2">>, NoFloat>>,
     <<<<"0", "x", "1", "0">>, NoFloat>>,
     <<<<"1", "2", ".", "5", "f">>, NoFloat>>,
     <<<<"1", "e", "1", ".", "5">>, NoFloat>>,
     <<<<"i", "n">>, NoFloat>>,
     <<<<"i", "n", "f", "i", "n", "i", "t">>, NoFloat>>,
     <<<<"1", "e", "1", "e", "1">>, NoFloat>>,
     <<<<"+", "-", "1">>, NoFloat>>,
     <<<<"i", "n", "f", "_">>, NoFloat>>,
     <<<<"U+0661", "U+0662", "e">>, NoFloat>>,
     <<<<"½">>, NoFloat>>,
     <<<<"²">>, NoFloat>>,
     <<TxtDeep, [ok |-> TRUE, v |-> FloatLit(Q(25, 2))]>>}

LonSpellings ==
    {<<<<"7", "7", ".", "5">>, [ok |-> TRUE, v |-> FloatLit(Q(155, 2))]>>,
     <<<<" ", "7", ".", "7", "5", "e", "1", " ">>, [ok |-> TRUE, v |-> FloatLit(Q(155, 2))]>>,
     <<<<"0">>, [ok |-> TRUE, v |-> Zero]>>,
     <<<<"x">>, NoFloat>>,
     <<<< >>, NoFloat>>}

\* the texts "a,b" of a latitude spelling a and a longitude spelling b, each with
\* the centre lines 124-145 resolve it to
SpellingRows ==
    {<<a[1] \o <<",">> \o b[1],
       IF a[2].ok /\ b[2].ok THEN LatLon(a[2].v, b[2].v) ELSE DefaultLatLon>> :
          a \in LatSpellings, b \in LonSpellings}

SpellingTexts == {r[1] : r \in SpellingRows}

\* the slider of line 121
MinKpZoom == 10
MaxKpZoom == 19

\* the radius field of line 120: from 50 m in steps of 10 m; here 50, 200, ...
MinKpRadius == 50
MaxRadiusSteps == 1

KpRadii == {MinKpRadius + 150 * i : i \in 0..MaxRadiusSteps}

\* every centre text, zoom and radius, and every pair of spellings at the default
\* zoom and radius; the default plot
InitMap ==
    /\ \/ \E t \in CentreTexts, z \in MinKpZoom..MaxKpZoom, r \in KpRadii :
             InitRun([DefaultForm EXCEPT !.kp_center_txt = t, !.kp_zoom = z,
                                         !.kp_radius_m = r])
       \/ \E t \in SpellingTexts : InitRun([DefaultForm EXCEPT !.kp_center_txt = t])
    /\ bad = {}
    /\ net = "up"

SpecMap == InitMap /\ [][Next]_vars

\* a centre the projection accepts or one it rejects; every tile request may fail
\* or succeed, or the server is down
InitTiles ==
    /\ \E t \in {TxtEmpty, TxtPole, TxtNaN, TxtSouthPole, TxtFarEast} :
          InitRun([DefaultForm EXCEPT !.kp_center_txt = t])
    /\ bad = {}
    /\ net \in {"flaky", "down"}

SpecTiles == InitTiles /\ [][Next]_vars

-----------------------------------------------------------------------------
(* Reading the modelspace.                                                 *)

\* the primitives of a modelspace that one call site added
ById(m, id) == SelectSeq(m, LAMBDA p : p.id = id)

Has(m, id) == Len(ById(m, id)) > 0

QMaxOf(S) == CHOOSE m \in S : \A x \in S : QLe(x, m)
QMinOf(S) == CHOOSE m \in S : \A x \in S : QLe(m, x)

\* the bounding box of a primitive's points, in drawing units
Xs(p) == {p.pts[i][1] : i \in DOMAIN p.pts}
Ys(p) == {p.pts[i][2] : i \in DOMAIN p.pts}
MinX(p) == QMinOf(Xs(p))
MaxX(p) == QMaxOf(Xs(p))
MinY(p) == QMinOf(Ys(p))
MaxY(p) == QMaxOf(Ys(p))

\* drawing units (metres) back to sheet millimetres
ToMM(x) == QMul(x, QI(1000))

\* the layout values are those of this run
Computed == pc \notin {"resolve", "settings", "idle"}

SiteId == <<"site", "", 0>>

\* the plot does not fit at 10 mm per metre
Overflows(f) ==
    \/ QLt(Q(2444, 10), QMul(f.site_width_m, QI(10)))
    \/ QLt(QI(257), QMul(f.site_length_m, QI(10)))

-----------------------------------------------------------------------------
(* C1: scale policy.  With usableWidth = 244.4 mm and usableHeight = 257 mm, the  *)
(* scale factor the script computes is exactly 10 when width*10 <= usableWidth    *)
(* and length*10 <= usableHeight, and min(usableWidth/width, usableHeight/length) *)
(* otherwise (the float of that quotient or a float next to it); that one factor  *)
(* is on both axes: the plot width times the factor, divided by the factor, is    *)
(* the plot width again, to a unit in the last place, and so the length, and the  *)
(* emitted rectangle's width and height divided by the factor are the plot width  *)
(* and length.                                                                    *)
C1_ScalePolicy ==
    Computed =>
        LET w == form.site_width_m
            l == form.site_length_m
            s == lay.mm_per_m_use
        IN  /\ ~Overflows(form) => s = ToFloat(QI(10))
            /\ Overflows(form) =>
                  Adjacent(s, ToFloat(QMin(QDiv(Q(2444, 10), w), QDiv(QI(257), l))))
            /\ Adjacent(FloatDiv(FloatMul(ToFloat(w), s), s), ToFloat(w))
            /\ Adjacent(FloatDiv(FloatMul(ToFloat(l), s), s), ToFloat(l))
            /\ Has(msp, SiteId) =>
                  LET r == ById(msp, SiteId)[1]
                  IN  /\ QDiv(ToMM(QSub(MaxX(r), MinX(r))), lay.mm_per_m_real) = w
                      /\ QDiv(ToMM(QSub(MaxY(r), MinY(r))), lay.mm_per_m_real) = l

\* C1 witness: a finished run of a plot 24.44 m wide, which at 10 mm per metre is
\* as wide as the usable width and not too long, drawn at the quotient of line
\* 185, the float next below 10
C1_Witness ==
    /\ pc = "done"
    /\ Has(msp, SiteId)
    /\ form.site_width_m = Q(2444, 100)
    /\ ~Overflows(form)
    /\ lay.mm_per_m_use = FloatDiv(usable_w_mm, ToFloat(form.site_width_m))
    /\ lay.mm_per_m_use # ToFloat(QI(10))
    /\ NextUp(lay.mm_per_m_use) = ToFloat(QI(10))

(* C2: the plot rectangle lies inside the drawing pane shrunk by 8 mm on every    *)
(* side (x from 20 to 264.4 mm, y from 20 to 277 mm) and is centred in it: left   *)
(* margin = right margin >= 0 and bottom margin = top margin >= 0.  That is, the  *)
(* leftovers the script computes at lines 190-191, usable extent - drawn extent,  *)
(* are not negative and the plot's corner site_x_mm, site_y_mm is not left of or  *)
(* below 20 mm; and the rectangle written into the drawing, in real arithmetic,   *)
(* has equal margins that are not negative.                                       *)
C2_PlotCentredInPane ==
    (Computed /\ Has(msp, SiteId)) =>
        LET r      == ById(msp, SiteId)[1]
            left   == QSub(ToMM(MinX(r)), QI(20))
            right  == QSub(Q(2644, 10), ToMM(MaxX(r)))
            bottom == QSub(ToMM(MinY(r)), QI(20))
            top    == QSub(QI(277), ToMM(MaxY(r)))
        IN  /\ FloatLe(lay.site_w_mm_draw, usable_w_mm)
            /\ FloatLe(lay.site_h_mm_draw, usable_h_mm)
            /\ FloatLe(ToFloat(QI(20)), lay.site_x_mm)
            /\ FloatLe(ToFloat(QI(20)), lay.site_y_mm)
            /\ left = right /\ QLe(QI(0), left)
            /\ bottom = top /\ QLe(QI(0), bottom)

\* C2 witness: a finished run of a plot 24.56 m wide, drawn at the best-fit scale
\* 244.39999999999998 / 24.56, whose drawn width, the product of line 188, is above
\* the usable width, and whose corner is left of 20 mm
C2_Witness ==
    /\ pc = "done"
    /\ Has(msp, SiteId)
    /\ form.site_width_m = Q(2456, 100)
    /\ lay.mm_per_m_use = FloatDiv(usable_w_mm, ToFloat(form.site_width_m))
    /\ lay.site_w_mm_draw = NextUp(usable_w_mm)
    /\ FloatLess(lay.site_x_mm, ToFloat(QI(20)))
    /\ NextUp(NextUp(NextUp(NextUp(lay.site_x_mm)))) = ToFloat(QI(20))

RoadId(side) == <<"road", side, 0>>
RoadLabelId(side) == <<"road_label", side, 0>>

\* how far a band reaches out from the plot edge, in sheet millimetres
Thickness(p, side) ==
    IF side \in {"north", "south"} THEN ToMM(QSub(MaxY(p), MinY(p)))
    ELSE ToMM(QSub(MaxX(p), MinX(p)))

\* the scale the emitted plot rectangle was drawn at
PlotScale == QDiv(ToMM(QSub(MaxX(ById(msp, SiteId)[1]), MinX(ById(msp, SiteId)[1]))),
                  form.site_width_m)

(* C3: once the road loop has passed a side, the modelspace holds exactly one     *)
(* band rectangle and one label of that side if its present flag is true, and     *)
(* none of either if it is false, whatever the side's width is; an emitted band   *)
(* is roadWidth * scaleFactor thick, with the scale factor of the plot rectangle. *)
C3_RoadBandIffPresent ==
    \A i \in 1..Len(Sides) :
        LET side  == Sides[i]
            info  == form.road_info[side]
            band  == ById(msp, RoadId(side))
            label == ById(msp, RoadLabelId(side))
        IN  IF i < side_idx /\ info.exists
            THEN /\ Len(band) = 1
                 /\ Len(label) = 1
                 /\ band[1].kind = "lwpolyline"
                 /\ label[1].kind = "text"
                 /\ Thickness(band[1], side) = QMul(info.width, PlotScale)
            ELSE Len(band) = 0 /\ Len(label) = 0

\* C3 witness: the loop is through; a present side of width 0 has its band and
\* label, an absent side of width 4.5 has neither, a present side of width 4.5
\* has a band of 4.5 * scale at a scale other than 10
C3_Witness ==
    /\ side_idx = Len(Sides) + 1
    /\ pc = "done"
    /\ lay.mm_per_m_real # QI(10)
    /\ form.road_info["north"] = [exists |-> TRUE, width |-> QI(0)]
    /\ Has(msp, RoadId("north")) /\ Has(msp, RoadLabelId("north"))
    /\ form.road_info["south"] = [exists |-> FALSE, width |-> Q(9, 2)]
    /\ ~Has(msp, RoadId("south")) /\ ~Has(msp, RoadLabelId("south"))
    /\ form.road_info["east"] = [exists |-> TRUE, width |-> Q(9, 2)]
    /\ Thickness(ById(msp, RoadId("east"))[1], "east") = QMul(Q(9, 2), lay.mm_per_m_real)

\* the side whose checkbox was unticked between the previous run and this one
Unticked == CHOOSE side \in SideSet :
                prev.form.road_info[side].exists /\ ~form.road_info[side].exists

\* a modelspace without the names of the temporary image files
NoPaths(m) == [i \in 1..Len(m) |-> IF m[i].kind = "image" THEN [m[i] EXCEPT !.text = NoTxt]
                                   ELSE m[i]]

\* a modelspace without the band and the label of one side
WithoutSide(m, side) ==
    SelectSeq(m, LAMBDA p : p.id \notin {RoadId(side), RoadLabelId(side)})

(* C4: when a run has completed, one side's present flag is changed from true to  *)
(* false with every input of the other sides, the plot and the map equal, and the *)
(* next run completes, then the second run's layout values (scale factor, plot    *)
(* rectangle) are the first run's and its modelspace is the first run's minus     *)
(* exactly that side's band rectangle and label: every other primitive is         *)
(* the same, in the same order.                                                   *)
C4_UntickRemovesOnlyThatSide ==
    (pc = "done" /\ prev.some
     /\ [form EXCEPT !.road_info[Unticked] = prev.form.road_info[Unticked]] = prev.form)
    =>  /\ lay = prev.lay
        /\ Len(ById(prev.msp, RoadId(Unticked))) = 1
        /\ Len(ById(prev.msp, RoadLabelId(Unticked))) = 1
        /\ Len(msp) = Len(prev.msp) - 2
        /\ NoPaths(msp) = NoPaths(WithoutSide(prev.msp, Unticked))

\* C4 witness: a second run completed after the west road, 4.5 m wide, was
\* unticked, while the north and south roads stay ticked
C4_Witness ==
    /\ pc = "done"
    /\ prev.some
    /\ Unticked = "west"
    /\ prev.form.road_info["west"].width = Q(9, 2)
    /\ form.road_info["north"] = [exists |-> TRUE, width |-> Q(9, 2)]
    /\ form.road_info["south"].exists
    /\ Has(msp, RoadId("north")) /\ Has(msp, RoadId("south"))
    /\ ~Has(msp, RoadId("west")) /\ Has(prev.msp, RoadId("west"))

-----------------------------------------------------------------------------
\* the primitives a run adds for form f when the library rejects nothing
HealthyIds(f) ==
    AllIds(f) \ ({<<"key_fallback", "", 0>>, <<"adlr_fallback", "", 0>>}
                 \cup {<<"general_conditions", "line", i>> : i \in 1..NumConditions}
                 \cup {<<"notes", "line", i>> : i \in 1..NumNotes})

InSeq(q, x) == \E i \in DOMAIN q : q[i] = x

(* C5: a primitive the document library rejects (a text, a multi-paragraph text   *)
(* block, a polyline or rectangle) never aborts the run: the script run does not  *)
(* end in an uncaught exception, and when it is done a warning was given for each *)
(* rejected primitive and every other primitive of the drawing is in the          *)
(* modelspace.                                                                    *)
C5_RejectionNeverAborts ==
    /\ pc # "aborted"
    /\ pc = "done" =>
          /\ \A id \in HealthyIds(form) \ bad : Has(msp, id)
          /\ \A id \in HealthyIds(form) \cap bad : InSeq(warnings, id)

(* C6: when make_keyplan_image returns, whatever subset of its nine tile requests *)
(* failed, no error was raised and the image is 3 x 3 tiles large; the slot of    *)
(* tile (dx, dy) holds the placeholder if that request failed and the tile        *)
(* (zoom, x_center + dx, y_center + dy) if it succeeded; the circle and the dot   *)
(* are at 512 + the centre's pixel offset in its tile.  For the default centre:   *)
(* key plan (zoom 16, 200 m) tile (46893, 30386), pixel (849, 592), radius 171;   *)
(* ADLR (zoom 19, 50 m) tile (375149, 243089), pixel (651, 645), radius 343.      *)
C6_FailedTilesBecomePlaceholders ==
    /\ pc # "aborted"
    /\ ~Has(msp, <<"key_fallback", "", 0>>) /\ ~Has(msp, <<"adlr_fallback", "", 0>>)
    /\ pc \in {"key_insert", "adlr_insert"} =>
          LET key  == pc = "key_insert"
              z    == IF key THEN 16 ELSE 19
              xc   == IF key THEN 46893 ELSE 375149
              yc   == IF key THEN 30386 ELSE 243089
              at   == IF key THEN <<849, 592>> ELSE <<651, 645>>
              rad  == IF key THEN 171 ELSE 343
              base == IF key THEN 0 ELSE 9
          IN  /\ Len(answers) = 9
              /\ Len(requests) = base + 9
              /\ img.size = <<1536, 1536>>
              /\ DOMAIN img.tiles = {<<c * 512, r * 512>> : c \in 0..2, r \in 0..2}
              /\ img.circle = <<at[1], at[2], rad>>
              /\ img.dot = at
              /\ \A dx \in -1..1, dy \in -1..1 :
                    LET k == (dy + 1) * 3 + (dx + 1) + 1
                    IN  /\ requests[base + k].x = xc + dx
                        /\ requests[base + k].y = yc + dy
                        /\ requests[base + k].z = z
                        /\ img.tiles[<<(dx + 1) * 512, (dy + 1) * 512>>] =
                              IF answers[k]
                              THEN [src |-> "osm", z |-> z, x |-> xc + dx, y |-> yc + dy,
                                    size |-> 512]
                              ELSE [src |-> "placeholder", z |-> 0, x |-> 0, y |-> 0,
                                    size |-> 512]

\* C6 witness: the key-plan call returned after the requests of the top-left tile
\* and of the centre tile failed and the other seven succeeded
C6_Witness ==
    /\ pc = "key_insert"
    /\ answers = <<FALSE, TRUE, TRUE, TRUE, FALSE, TRUE, TRUE, TRUE, TRUE>>
    /\ img.tiles[<<0, 0>>].src = "placeholder"
    /\ img.tiles[<<512, 512>>].src = "placeholder"
    /\ img.tiles[<<1024, 0>>].src = "osm"

(* C7: after the centre was resolved, a text that is empty or blank (blanks, tabs, *)
(* newlines, the spaces of Unicode), a text with a comma whose two parts are not  *)
(* both numbers, and an address for which the geocoding call failed or returned   *)
(* nothing give the default centre (12.9715987, 77.5945627), and no error ends    *)
(* the run; a text that parses as two numbers, in any form float() reads, gives   *)
(* those two.  So for every pair of a latitude and a longitude spelling, among    *)
(* them a text of 100012 characters: both numbers if float() reads both, the      *)
(* default if it raises for one.                                                  *)
C7_CentreFallsBackToDefault ==
    /\ pc # "aborted"
    /\ pc # "resolve" =>
          LET t == form.kp_center_txt
              default == LatLon(FloatLit(Q(129715987, 10000000)),
                                FloatLit(Q(775945627, 10000000)))
              pair(lat, lon) == LatLon(FloatLit(lat), FloatLit(lon))
          IN  /\ t \in {TxtEmpty, TxtBlank, TxtTabs, TxtWideBlank, TxtHalf, TxtLetters,
                        TxtThree, TxtInnerBlank}
                    => picked_latlon = default
              /\ (t = TxtAddress /\ data.kind \in {"error", "empty"})
                    => picked_latlon = default
              /\ t \in {TxtPair, TxtPairSpaced, TxtPairTabs, TxtPairWide}
                    => picked_latlon = pair(Q(25, 2), Q(155, 2))
              /\ t = TxtNegative => picked_latlon = pair(Q(-3, 2), Q(1, 2))
              /\ t = TxtZero => picked_latlon = pair(QI(0), QI(0))
              /\ t = TxtExp => picked_latlon = pair(QI(10), QI(70))
              /\ t = TxtPole => picked_latlon = pair(QI(95), QI(0))
              /\ t = TxtRightAngle => picked_latlon = pair(QI(450), QI(0))
              /\ t = TxtLong => picked_latlon = default
              /\ t = TxtNaN => picked_latlon = LatLon(NaN, Zero)
              /\ t = TxtSouthPole
                    => /\ picked_latlon.some /\ picked_latlon.lat.neg
                       /\ picked_latlon.lat.e = 6
                       /\ picked_latlon.lon = Zero
              /\ t = TxtFarEast
                    => /\ picked_latlon.some /\ picked_latlon.lat = Zero
                       /\ picked_latlon.lon.e = 1023 /\ ~picked_latlon.lon.neg
              /\ \A r \in SpellingRows : t = r[1] => picked_latlon = r[2]

\* C7 witness: a run completed for an address whose geocoding request failed, with
\* both insets composed around the default centre
C7_Witness ==
    /\ pc = "done"
    /\ form.kp_center_txt = TxtAddress
    /\ data.kind = "error"
    /\ picked_latlon = DefaultLatLon
    /\ Len(calls) = 2
    /\ calls[1].lat = DefaultLatLon.lat

(* C8: for every key-plan zoom in 10..19 and every key-plan radius, the ADLR      *)
(* zoom is min(19, keyZoom + 3), within 13..19, the ADLR radius is 50 m, and the  *)
(* ADLR inset is composed with these around the centre the key-plan inset was     *)
(* composed around, which is the resolved centre.                                 *)
C8_AdlrZoomAndRadius ==
    LET want == IF form.kp_zoom + 3 <= 19 THEN form.kp_zoom + 3 ELSE 19
    IN  /\ pc \notin {"resolve", "settings"} =>
              /\ adlr_zoom = want
              /\ adlr_zoom \in 13..19
              /\ adlr_buffer_m = 50
        /\ \A i \in DOMAIN calls :
              /\ calls[i].lat = picked_latlon.lat /\ calls[i].lon = picked_latlon.lon
              /\ calls[i].which = "key" =>
                    calls[i].zoom = form.kp_zoom /\ calls[i].radius_m = form.kp_radius_m
              /\ calls[i].which = "adlr" =>
                    /\ calls[i].zoom = want
                    /\ calls[i].radius_m = 50
                    /\ i = 2 /\ calls[1].which = "key"
                    /\ calls[1].lat = calls[i].lat /\ calls[1].lon = calls[i].lon

\* C8 witness: key plan at zoom 19 with radius 200 m around a typed centre; the
\* ADLR inset was composed at zoom 19 (capped) with radius 50 m around the same
C8_Witness ==
    /\ form.kp_zoom = 19
    /\ form.kp_radius_m = 200
    /\ form.kp_center_txt = TxtPair
    /\ Len(calls) = 2
    /\ calls[2] = [which |-> "adlr", lat |-> FloatLit(Q(25, 2)), lon |-> FloatLit(Q(155, 2)),
                   zoom |-> 19, radius_m |-> 50]
    /\ calls[1].radius_m = 200

\* the call sites that write a fixed-position frame
FrameSites == {"border", "draw_rect", "key_box", "adlr_box", "lut_border", "title_block",
               "tb_divider", "sig_box"}

(* C9: every fixed-position frame in the modelspace (page border, drawing-pane    *)
(* border, key-plan box, ADLR box, land-use table frame, title-block frame and    *)
(* dividers, signature boxes) has all its vertices in metres, inside the page     *)
(* rectangle [0, 0.420] x [0, 0.297].                                             *)
C9_FramesInMetres ==
    \A i \in DOMAIN msp :
        msp[i].id[1] \in FrameSites =>
            \A j \in DOMAIN msp[i].pts :
                /\ QLe(QI(0), msp[i].pts[j][1]) /\ QLe(msp[i].pts[j][1], Q(420, 1000))
                /\ QLe(QI(0), msp[i].pts[j][2]) /\ QLe(msp[i].pts[j][2], Q(297, 1000))

(* C10: the key-plan box is above the ADLR box with a 10 mm gap, and the land-use *)
(* table (header row, data rows, frame) lies entirely below the bottom edge of    *)
(* the ADLR box.                                                                  *)
C10_InsetPaneStacked ==
    Has(msp, <<"adlr_box", "", 0>>) =>
        LET key  == ById(msp, <<"key_box", "", 0>>)[1]
            adlr == ById(msp, <<"adlr_box", "", 0>>)[1]
        IN  /\ QSub(MinY(key), MaxY(adlr)) = Q(10, 1000)
            /\ \A i \in DOMAIN msp :
                  msp[i].id[1] \in {"lut_header", "lut_cell", "lut_border"} =>
                      QLe(MaxY(msp[i]), MinY(adlr))

\* a composition call of this run was made and has returned
Composed(which) ==
    /\ \E i \in DOMAIN calls : calls[i].which = which
    /\ comp = NoComp

(* C11: the two downloads are offered only after the whole pipeline has completed *)
(* without a fatal error: whenever a download is offered, both are, the layout is *)
(* computed, both inset compositions have returned, the emission is through to    *)
(* the last signature box, and the DXF buffer and the PDF buffer are written; in  *)
(* a run that a raised exception ended, none is offered.                          *)
C11_DownloadsOnlyAfterPipeline ==
    /\ downloads \in {{}, {"Download DXF", "Download PDF"}}
    /\ pc = "aborted" => downloads = {}
    /\ downloads # {} =>
          /\ pc \in {"cleanup", "done"}
          /\ lay = ComputeLayout(form.site_width_m, form.site_length_m)
          /\ Composed("key") /\ Composed("adlr")
          /\ Has(msp, <<"sig_box", "", NumSigBoxes>>)
          /\ outputs = {"dxf_buf", "pdf_buf"}

\* C11 witness: a run that ended when fig.savefig raised, after the DXF buffer was
\* written: no download is offered
C11_Witness ==
    /\ pc = "aborted"
    /\ SavefigId \in bad
    /\ outputs = {"dxf_buf"}
    /\ downloads = {}

(* C12: the run records the two temporary files it creates for the key-plan and  *)
(* the ADLR image, and they exist when the cleanup starts; the cleanup always     *)
(* ends the run as completed, also when a removal fails; after a completed run    *)
(* each of the two files is gone, unless its removal failed.                      *)
C12_TempFilesDeleted ==
    /\ [](/\ pc \in {"cleanup", "done"} =>
                tmp_files = <<TmpName(run, "key"), TmpName(run, "adlr")>>
          /\ pc = "cleanup" => \A i \in DOMAIN tmp_files : tmp_files[i] \in tmpdir
          /\ pc = "done" =>
                /\ downloads = {"Download DXF", "Download PDF"}
                /\ \A i \in DOMAIN tmp_files :
                      tmp_files[i] \in tmpdir <=> tmp_files[i] \in locked)
    /\ [][pc = "cleanup" => pc' = "done"]_vars

\* C12 witness: a completed first run; the removal of the key-plan image failed
\* and the file is still there, the ADLR image is gone
C12_Witness ==
    /\ pc = "done"
    /\ run = 0
    /\ TmpName(0, "key") \in locked
    /\ TmpName(0, "key") \in tmpdir
    /\ TmpName(0, "adlr") \notin tmpdir
    /\ tmp_files = <<TmpName(0, "key"), TmpName(0, "adlr")>>

(* C14: the cleanup removes only files this run created: every file that leaves   *)
(* the temporary directory in a step is one of the paths recorded in tmp_files;   *)
(* a tmp*.png file of another run or another program stays.                       *)
C14_CleanupRemovesOnlyOwnFiles ==
    [][\A path \in tmpdir \ tmpdir' : InSeq(tmp_files, path)]_vars

\* the positions of the script before, between and after the two compositions
BeforeKeyTiles == {"resolve", "settings", "idle", "borders", "site", "roads", "site_title",
                   "key_box", "key_call"}
BetweenTiles == {"key_insert", "adlr_box", "adlr_call"}
AfterAdlrTiles == {"adlr_insert", "land_use", "conditions", "notes", "title_block",
                   "signatures", "save_dxf", "render_pdf", "downloads", "cleanup", "done"}

\* the requests made so far are those of the 3 x 3 grids around the default
\* centre, key plan first, in row order, and no two are the same
GridRequests ==
    /\ \A i \in DOMAIN requests :
          LET key == i <= 9
              k   == (i - 1) % 9
              xc  == IF key THEN 46893 ELSE 375149
              yc  == IF key THEN 30386 ELSE 243089
          IN  /\ requests[i].which = IF key THEN "key" ELSE "adlr"
              /\ requests[i].z = IF key THEN 16 ELSE 19
              /\ requests[i].x = xc + (k % 3) - 1
              /\ requests[i].y = yc + (k \div 3) - 1
    /\ \A i, j \in DOMAIN requests : i # j => requests[i] # requests[j]

(* C13 as stated: in every run, whatever requests fail, the first nine tile       *)
(* requests are the key-plan composition's and the next nine the ADLR             *)
(* composition's, which is called only after the key-plan composition returned;   *)
(* a composition that has returned made exactly nine requests, the k-th for the   *)
(* tile (x_center + dx, y_center + dy) of the 3 x 3 grid in row order, at its own *)
(* zoom; no tile is requested twice (a failed request is not repeated).           *)
C13_NineRequestsInEveryRun ==
    /\ pc # "aborted"
    /\ pc \in BeforeKeyTiles => Len(requests) = 0 /\ Len(calls) = 0
    /\ pc = "key_tiles" => Len(requests) = comp.k /\ comp.k <= 9 /\ Len(calls) = 1
    /\ pc \in BetweenTiles => Len(requests) = 9 /\ Len(calls) = 1
    /\ pc = "adlr_tiles" => Len(requests) = 9 + comp.k /\ comp.k <= 9 /\ Len(calls) = 2
    /\ pc \in AfterAdlrTiles => Len(requests) = 18 /\ Len(calls) = 2
    /\ GridRequests

(* C13 amended: a composition whose centre the tile projection accepts at its     *)
(* zoom does as stated above; one whose centre it rejects (a latitude for which   *)
(* tan(lat) + 1 / cos(lat) is not positive as the floats give it, nan, inf, a     *)
(* longitude too large for the zoom) raises before its first request: it makes    *)
(* none, the text that stands for the inset is drawn, and the ADLR composition is *)
(* still called after the key-plan composition.                                   *)
C13_TileRequestsSequentialOnce ==
    LET key_ok  == Projects(picked_latlon.lat, picked_latlon.lon, form.kp_zoom)
        adlr_ok == Projects(picked_latlon.lat, picked_latlon.lon,
                            AdlrZoomOf(form.kp_zoom))
        n_key   == IF key_ok THEN 9 ELSE 0
        n_adlr  == IF adlr_ok THEN 9 ELSE 0
    IN  /\ pc # "aborted"
        /\ pc \in BeforeKeyTiles => Len(requests) = 0 /\ Len(calls) = 0
        /\ pc = "key_tiles" =>
              key_ok /\ Len(requests) = comp.k /\ comp.k <= 9 /\ Len(calls) = 1
        /\ pc \in BetweenTiles => Len(requests) = n_key /\ Len(calls) = 1
        /\ pc = "adlr_tiles" =>
              adlr_ok /\ Len(requests) = n_key + comp.k /\ comp.k <= 9 /\ Len(calls) = 2
        /\ pc \in AfterAdlrTiles => Len(requests) = n_key + n_adlr /\ Len(calls) = 2
        /\ pc = "key_insert" => key_ok
        /\ pc = "adlr_insert" => adlr_ok
        /\ (pc \in BetweenTiles \cup AfterAdlrTiles /\ ~key_ok) =>
              Has(msp, <<"key_fallback", "", 0>>)
        /\ (pc \in AfterAdlrTiles /\ ~adlr_ok) => Has(msp, <<"adlr_fallback", "", 0>>)
        /\ GridRequests

\* C13 witness: the tile server is down; the ADLR composition returned after all
\* its nine requests failed, and eighteen requests were made in all
C13_Witness ==
    /\ net = "down"
    /\ pc = "adlr_insert"
    /\ Len(requests) = 18
    /\ answers = <<FALSE, FALSE, FALSE, FALSE, FALSE, FALSE, FALSE, FALSE, FALSE>>
    /\ requests[9].which = "key"
    /\ requests[10] = [which |-> "adlr", z |-> 19, x |-> 375148, y |-> 243088]

\* the title-block text of line 420
ScaleTextId == <<"tb_text", "", 2>>

(* C15: the scale text of the title block is "SCALE : 1:100" in every run,        *)
(* whatever scale factor the layout computed: every completed run has exactly one *)
(* such text, and wherever it is in the modelspace its content is the literal     *)
(* "SCALE : 1:" followed by the number 100, also when the plot does not fit at    *)
(* 10 mm per metre and is drawn at a smaller scale.                               *)
C15_ScaleTextConstant ==
    /\ pc = "done" => Len(ById(msp, ScaleTextId)) = 1
    /\ \A i \in DOMAIN msp :
          msp[i].id = ScaleTextId =>
              /\ msp[i].kind = "text"
              /\ msp[i].text = [s |-> <<"SCALE : 1:">>, a |-> [fmt |-> 0, val |-> 100],
                                b |-> [fmt |-> 0, val |-> 0]]

\* C15 witness: a completed run of a plot 36.66 m wide, drawn at 244.4/36.66 mm per
\* metre (1:150), whose title block says 1:100
C15_Witness ==
    /\ pc = "done"
    /\ form.site_width_m = Q(3666, 100)
    /\ Overflows(form)
    /\ lay.mm_per_m_real = QDiv(Q(2444, 10), Q(3666, 100))
    /\ Has(msp, ScaleTextId)
    /\ ById(msp, ScaleTextId)[1].text.a.val = 100

====
